---- MODULE Spec2Model ----
(***************************************************************************)
(* A model of the aerthos engine: the DungeonConfig validation, the        *)
(* procedural DungeonGenerator (layout graph, compass exits, encounters),  *)
(* the THAC0 CombatResolver and DiceRoller, the player's light, rest and   *)
(* levels, the GameState commands, the ScenarioLibrary and the sessions    *)
(* of the web layer.                                                       *)
(*                                                                         *)
(* Rooms are numbered: room i stands for the id "room_00i".  Frequencies   *)
(* are in tenths (6 stands for 0.6); on tenths the float sum and the float *)
(* product int(n * f) of the source agree with the exact arithmetic.       *)
(***************************************************************************)
EXTENDS Integers, Sequences, FiniteSets, TLC

VARIABLES
    config,          \* <<>> or <<the DungeonConfig object>>
    config_args,     \* the arguments of the last DungeonConfig(...) call
    config_error,    \* "" or the ValueError message of that call
    gpc,             \* position inside DungeonGenerator.generate
    graph,           \* room_graph: graph[i] = set of rooms connected to i
    room_counter,    \* _generate_branching_layout: next room number
    branch_points,   \* _generate_branching_layout: branch points still to do
    loop_i,          \* _generate_network_layout: loops handled so far
    attempts,        \* _generate_network_layout: attempts of this loop
    exits,           \* rooms[i]['exits']: exits[i][d] = target room or 0
    available_dirs,  \* _assign_bidirectional_exits: directions left per room
    processed_pairs, \* _assign_bidirectional_exits: pairs already handled
    room_idx,        \* _assign_bidirectional_exits: position in sorted_rooms
    calls,           \* number of generate calls made with this config
    first_exits,     \* the exits returned by the first generate call
    cpc,             \* position inside the CombatResolver call in progress
    atk,             \* <<>> or <<the last direct attack_roll or roll call>>
    party,           \* resolve_combat_round: the party (side A)
    monsters,        \* resolve_combat_round: the monsters (side B)
    results,         \* resolve_combat_round: the results dict
    acting,          \* the side whose _process_side_actions is running
    turn,            \* 1 for the side acting first, 2 for the second
    attacker_idx,    \* _process_side_actions: position in attackers
    actions,         \* results['actions']: who attacked whom
    time_tracker,    \* the TimeTracker: turns_elapsed and total_hours
    player,          \* the PlayerCharacter of the session
    game,            \* the GameState: dungeon, current room, combat state
    last,            \* the last call made on them, its result and what
                     \* the state was before it
    ppc,             \* position inside generate after _create_rooms
    room_encounters, \* rooms[i]['encounters'] of the dungeon being generated
    safe_rest,       \* rooms[i]['safe_rest'] of the dungeon being generated
    empty_rooms,     \* the rooms without encounters that
                     \* _designate_safe_rooms found
    scenarios_dir,   \* the files of the ScenarioLibrary, by file name
    saved_from,      \* which call wrote each file, and from what
    lib_last,        \* the last create_dungeon_from_scenario and its result
    active_games,    \* active_games: the GameState of each session id, or 0
    game_states,     \* the GameState objects that new_game has created
    requests         \* the /api/command requests in flight and their
                     \* position inside execute_command

gen_vars == <<gpc, graph, room_counter, branch_points, loop_i, attempts,
              exits, available_dirs, processed_pairs, room_idx, calls,
              first_exits>>
cfg_vars == <<config, config_args, config_error>>
combat_vars == <<cpc, atk, party, monsters, results, acting, turn,
                 attacker_idx, actions>>
session_vars == <<time_tracker, player, game, last>>
pop_vars == <<ppc, room_encounters, safe_rest, empty_rooms>>
lib_vars == <<scenarios_dir, saved_from, lib_last>>
web_vars == <<active_games, game_states, requests>>
vars == <<cfg_vars, gen_vars, combat_vars, session_vars, pop_vars, lib_vars,
          web_vars>>
outside_gen == <<combat_vars, session_vars, pop_vars, lib_vars, web_vars>>
outside_combat == <<cfg_vars, gen_vars, session_vars, pop_vars, lib_vars,
                    web_vars>>
outside_session == <<cfg_vars, gen_vars, combat_vars, pop_vars, lib_vars,
                     web_vars>>
outside_pop == <<gen_vars, combat_vars, session_vars, lib_vars, web_vars>>
outside_lib == <<cfg_vars, gen_vars, combat_vars, session_vars, pop_vars,
                 web_vars>>
outside_web == <<cfg_vars, gen_vars, combat_vars, session_vars, pop_vars,
                 lib_vars>>

----------------------------------------------------------------------------
(* Bounds of the model *)

MaxRooms == 7
MaxDeadEnds == 2
MaxLoops == 2
DetRooms == 5
NetRooms == 8
MaxTurns == 13
MaxBurn == 4
MaxXp == 6000
MaxGameTurns == 4
MaxDice == 3
MaxLevel == 7
MaxPopRooms == 4
MaxGames == 2
MaxSafeRooms == 2

(* Program constants *)

MinRooms == 3
MaxAttempts == 20
RestTurns == 48

----------------------------------------------------------------------------
(* generator/config.py *)

\* seed: Optional[int], None is <<>>.
Seeds == {<<>>, <<42>>}

LayoutTypes == {"linear", "branching", "network"}
TreasureLevels == {"low", "medium", "high"}

Min(a, b) == IF a < b THEN a ELSE b
Max(a, b) == IF a > b THEN a ELSE b

\* A __post_init__ that also refuses a frequency sum of exactly 1.0.
PostInit_SumInclusive(c) ==
    IF c.num_rooms < MinRooms THEN "Must have at least 3 rooms"
    ELSE IF c.combat_frequency + c.trap_frequency + c.empty_room_frequency >= 10
         THEN "Encounter frequencies sum to more than 1.0"
    ELSE IF c.layout_type \notin LayoutTypes THEN "Invalid layout_type"
    ELSE IF c.treasure_level \notin TreasureLevels THEN "Invalid treasure_level"
    ELSE ""

\* DungeonConfig.__post_init__: the message of the ValueError raised, or "".
PostInit(c) ==
    IF c.num_rooms < MinRooms THEN "Must have at least 3 rooms"
    ELSE IF c.combat_frequency + c.trap_frequency + c.empty_room_frequency > 10
         THEN "Encounter frequencies sum to more than 1.0"
    ELSE IF c.layout_type \notin LayoutTypes THEN "Invalid layout_type"
    ELSE IF c.treasure_level \notin TreasureLevels THEN "Invalid treasure_level"
    ELSE ""

\* The dataclass constructor: fields are stored as given, then __post_init__
\* runs; when it raises, the caller gets no object.
DungeonConfig(args) ==
    [obj |-> IF PostInit(args) = "" THEN <<args>> ELSE <<>>,
     error |-> PostInit(args)]

\* The dataclass defaults, with the given fields set.
ConfigArgs(seed, n, layout, dead, loops, cf, tf, ef, tl) ==
    [seed |-> seed, num_rooms |-> n, layout_type |-> layout,
     dead_ends |-> dead, loops |-> loops,
     combat_frequency |-> cf, trap_frequency |-> tf,
     empty_room_frequency |-> ef, treasure_level |-> tl]

----------------------------------------------------------------------------
(* generator/dungeon_generator.py: the room graph *)

\* _generate_linear_layout: room i is connected to i-1 and i+1.
LinearLayout(num_rooms) ==
    [i \in 1..num_rooms |->
        (IF i > 1 THEN {i - 1} ELSE {}) \cup
        (IF i < num_rooms THEN {i + 1} ELSE {})]

\* dead_ends = min(config.dead_ends, num_rooms // 3)
DeadEnds(c) == Min(c.dead_ends, c.num_rooms \div 3)

\* main_path_length = max(3, int(num_rooms * 0.6))
MainPathLength(c) == Max(3, (c.num_rooms * 6) \div 10)

\* The main path of _generate_branching_layout.
MainPath(len) ==
    [i \in 1..len |->
        (IF i > 1 THEN {i - 1} ELSE {}) \cup
        (IF i < len THEN {i + 1} ELSE {})]

\* The size rng.sample is asked for: min(dead_ends, main_path_length - 2).
SampleSize(c) == Min(DeadEnds(c), MainPathLength(c) - 2)

\* rng.sample(population, k): the sequences of k distinct elements.
RECURSIVE Samples(_, _)
Samples(S, k) ==
    IF k = 0 THEN {<<>>}
    ELSE UNION {{<<x>> \o t : t \in Samples(S \ {x}, k - 1)} : x \in S}

\* One branch: rooms start .. start+len-1, the first tied to parent, each
\* later one to the room before it.
AddBranchRooms(g, parent, start, len) ==
    [i \in 1..(start + len - 1) |->
        IF i < start
        THEN (IF i = parent THEN g[i] \cup {start} ELSE g[i])
        ELSE {IF i = start THEN parent ELSE i - 1} \cup
             (IF i < start + len - 1 THEN {i + 1} ELSE {})]

\* branch_length = min(rng.randint(1, 3), num_rooms - room_counter + 1)
BranchLength(r, c, counter) == Min(r, c.num_rooms - counter + 1)

\* loops_to_add = min(config.loops, len(room_ids) // 4)
LoopsToAdd(c, g) == Min(c.loops, Len(g) \div 4)

Abs(x) == IF x < 0 THEN 0 - x ELSE x

\* The test of _generate_network_layout on a drawn pair of rooms.
LoopAllowed(g, room1, room2) ==
    /\ room1 # room2
    /\ room2 \notin g[room1]
    /\ Abs(room1 - room2) > 2

AddEdge(g, room1, room2) ==
    [g EXCEPT ![room1] = @ \cup {room2}, ![room2] = @ \cup {room1}]

----------------------------------------------------------------------------
(* generator/dungeon_generator.py: the compass exits *)

Dirs == {"north", "south", "east", "west"}
InitialDirs == <<"north", "south", "east", "west">>

Opposite(d) ==
    CASE d = "north" -> "south"
      [] d = "south" -> "north"
      [] d = "east" -> "west"
      [] d = "west" -> "east"

Has(s, d) == \E i \in DOMAIN s : s[i] = d

\* list.remove(d)
Remove(s, d) == SelectSeq(s, LAMBDA x : x # d)

\* The orders in which a Python set of room ids can be iterated.
RECURSIVE Orders(_)
Orders(S) ==
    IF S = {} THEN {<<>>}
    ELSE UNION {{<<x>> \o t : t \in Orders(S \ {x})} : x \in S}

\* A direction choice that looks only at the directions left in room_id and
\* not at those left in connected_id.
ChooseDirection_IgnorePeer(avail, room_id, connected_id) ==
    LET a == avail[room_id]
    IN  IF connected_id < room_id
        THEN IF Has(a, "south") THEN "south"
             ELSE IF Has(a, "west") THEN "west"
             ELSE IF a # <<>> THEN a[1] ELSE "none"
        ELSE IF Has(a, "north") THEN "north"
             ELSE IF Has(a, "east") THEN "east"
             ELSE IF a # <<>> THEN a[1] ELSE "none"

\* The direction chosen for room_id -> connected_id, or "none".
ChooseDirection(avail, room_id, connected_id) ==
    LET a == avail[room_id]
        b == avail[connected_id]
        preferred ==
            IF connected_id < room_id
            THEN IF Has(a, "south") /\ Has(b, "north") THEN "south"
                 ELSE IF Has(a, "west") /\ Has(b, "east") THEN "west"
                 ELSE "none"
            ELSE IF Has(a, "north") /\ Has(b, "south") THEN "north"
                 ELSE IF Has(a, "east") /\ Has(b, "west") THEN "east"
                 ELSE "none"
        usable == {i \in DOMAIN a : Has(b, Opposite(a[i]))}
    IN  IF preferred # "none" THEN preferred
        ELSE IF usable # {}
             THEN a[CHOOSE i \in usable : \A j \in usable : i <= j]
             ELSE "none"

\* The body of the inner loop of _assign_bidirectional_exits for one
\* connected_id; st = [exits, avail, pairs].
AssignPair(st, room_id, connected_id) ==
    LET pair == IF room_id < connected_id THEN <<room_id, connected_id>>
                ELSE <<connected_id, room_id>>
        direction == ChooseDirection(st.avail, room_id, connected_id)
    IN  IF pair \in st.pairs THEN st
        ELSE IF direction = "none"
             THEN [st EXCEPT !.pairs = @ \cup {pair}]
             ELSE [exits |-> [st.exits EXCEPT
                                ![room_id][direction] = connected_id,
                                ![connected_id][Opposite(direction)] = room_id],
                   avail |-> [st.avail EXCEPT
                                ![room_id] = Remove(@, direction),
                                ![connected_id] = Remove(@, Opposite(direction))],
                   pairs |-> st.pairs \cup {pair}]

\* The inner loop for one room, its connections iterated in the given order.
RECURSIVE AssignRoom(_, _, _)
AssignRoom(st, room_id, order) ==
    IF order = <<>> THEN st
    ELSE AssignRoom(AssignPair(st, room_id, Head(order)), room_id, Tail(order))

----------------------------------------------------------------------------
(* DungeonGenerator.generate, step by step *)

cfg == config[1]

\* generate with layout_type 'linear'.
GenerateLinear ==
    /\ gpc = "start"
    /\ cfg.layout_type = "linear"
    /\ graph' = LinearLayout(cfg.num_rooms)
    /\ gpc' = "rooms"
    /\ UNCHANGED <<cfg_vars, outside_gen, room_counter, branch_points, loop_i, attempts,
                   exits, available_dirs, processed_pairs, room_idx, calls,
                   first_exits>>

\* generate with layout_type 'branching' or 'network': the main path and the
\* draw of the branch points; rng.sample raises ValueError on a negative size.
GenerateBranchingStart ==
    /\ gpc = "start"
    /\ cfg.layout_type \in {"branching", "network"}
    /\ graph' = MainPath(MainPathLength(cfg))
    /\ room_counter' = MainPathLength(cfg) + 1
    /\ IF SampleSize(cfg) < 0
       THEN /\ gpc' = "raised"
            /\ branch_points' = <<>>
       ELSE /\ gpc' = "branches"
            /\ branch_points' \in
                 Samples(2..(MainPathLength(cfg) - 1), SampleSize(cfg))
    /\ UNCHANGED <<cfg_vars, outside_gen, loop_i, attempts, exits, available_dirs,
                   processed_pairs, room_idx, calls, first_exits>>

\* One iteration of "for branch_point in branch_points".
AddBranch ==
    /\ gpc = "branches"
    /\ branch_points # <<>>
    /\ room_counter <= cfg.num_rooms
    /\ \E r \in 1..3 :
         LET len == BranchLength(r, cfg, room_counter)
         IN  /\ graph' = AddBranchRooms(graph, Head(branch_points),
                                        room_counter, len)
             /\ room_counter' = room_counter + len
    /\ branch_points' = Tail(branch_points)
    /\ UNCHANGED <<cfg_vars, outside_gen, gpc, loop_i, attempts, exits, available_dirs,
                   processed_pairs, room_idx, calls, first_exits>>

\* The branch loop ends: no branch point left, or the room budget is used up.
BranchesDone ==
    /\ gpc = "branches"
    /\ branch_points = <<>> \/ room_counter > cfg.num_rooms
    /\ gpc' = IF cfg.layout_type = "network" THEN "loops" ELSE "rooms"
    /\ loop_i' = 0
    /\ attempts' = 0
    /\ UNCHANGED <<cfg_vars, outside_gen, graph, room_counter, branch_points, exits,
                   available_dirs, processed_pairs, room_idx, calls,
                   first_exits>>

\* One pass of "while attempts < 20": two rooms are drawn.
LoopAttempt ==
    /\ gpc = "loops"
    /\ loop_i < LoopsToAdd(cfg, graph)
    /\ attempts < MaxAttempts
    /\ \E room1 \in DOMAIN graph, room2 \in DOMAIN graph :
         IF LoopAllowed(graph, room1, room2)
         THEN /\ graph' = AddEdge(graph, room1, room2)
              /\ loop_i' = loop_i + 1
              /\ attempts' = 0
         ELSE /\ attempts' = attempts + 1
              /\ UNCHANGED <<graph, loop_i>>
    /\ UNCHANGED <<cfg_vars, outside_gen, gpc, room_counter, branch_points, exits,
                   available_dirs, processed_pairs, room_idx, calls,
                   first_exits>>

\* The while loop ends after 20 attempts without a loop being placed.
LoopGiveUp ==
    /\ gpc = "loops"
    /\ loop_i < LoopsToAdd(cfg, graph)
    /\ attempts >= MaxAttempts
    /\ loop_i' = loop_i + 1
    /\ attempts' = 0
    /\ UNCHANGED <<cfg_vars, outside_gen, gpc, graph, room_counter, branch_points, exits,
                   available_dirs, processed_pairs, room_idx, calls,
                   first_exits>>

\* "for _ in range(loops_to_add)" is exhausted.
LoopsDone ==
    /\ gpc = "loops"
    /\ loop_i >= LoopsToAdd(cfg, graph)
    /\ gpc' = "rooms"
    /\ UNCHANGED <<cfg_vars, outside_gen, graph, room_counter, branch_points, loop_i,
                   attempts, exits, available_dirs, processed_pairs, room_idx,
                   calls, first_exits>>

\* _create_rooms: every room of the graph gets an empty exit map.
CreateRooms ==
    /\ gpc = "rooms"
    /\ exits' = [i \in DOMAIN graph |-> [d \in Dirs |-> 0]]
    /\ available_dirs' = [i \in DOMAIN graph |-> InitialDirs]
    /\ processed_pairs' = {}
    /\ room_idx' = 1
    /\ gpc' = "assign"
    /\ UNCHANGED <<cfg_vars, outside_gen, graph, room_counter, branch_points, loop_i,
                   attempts, calls, first_exits>>

\* One iteration of "for room_id in sorted_rooms"; the set room_graph[room_id]
\* is iterated in an order the language does not fix.
AssignRoomExits ==
    /\ gpc = "assign"
    /\ room_idx <= Len(graph)
    /\ \E order \in Orders(graph[room_idx]) :
         LET st == AssignRoom([exits |-> exits, avail |-> available_dirs,
                               pairs |-> processed_pairs], room_idx, order)
         IN  /\ exits' = st.exits
             /\ available_dirs' = st.avail
             /\ processed_pairs' = st.pairs
    /\ room_idx' = room_idx + 1
    /\ UNCHANGED <<cfg_vars, outside_gen, gpc, graph, room_counter, branch_points, loop_i,
                   attempts, calls, first_exits>>

\* generate returns the dungeon.
GenerateReturn ==
    /\ gpc = "assign"
    /\ room_idx > Len(graph)
    /\ gpc' = "done"
    /\ UNCHANGED <<cfg_vars, outside_gen, graph, room_counter, branch_points, loop_i,
                   attempts, exits, available_dirs, processed_pairs, room_idx,
                   calls, first_exits>>

\* A second generate call with the same config object.  With config.seed set,
\* rng.seed(config.seed) restarts the same stream of draws, so the call
\* rebuilds the same room_graph; the iteration order of its sets is not
\* governed by the seed.  Without a seed the call draws afresh.
GenerateAgain ==
    /\ gpc = "done"
    /\ calls = 1
    /\ calls' = 2
    /\ first_exits' = exits
    /\ gpc' = IF cfg.seed # <<>> THEN "rooms" ELSE "start"
    /\ UNCHANGED <<cfg_vars, outside_gen, graph, room_counter, branch_points, loop_i,
                   attempts, exits, available_dirs, processed_pairs, room_idx>>

----------------------------------------------------------------------------
(* Constructing a DungeonConfig *)

\* DungeonConfig(seed=.., num_rooms=.., ...) is called.
ConstructConfig ==
    /\ \E seed \in Seeds, n \in (MinRooms - 1)..(MinRooms + 1),
          layout \in LayoutTypes \cup {"maze"}, dead \in {MaxDeadEnds},
          cf \in {2, 6, 10}, tf \in {2, 3}, ef \in {0, 2},
          tl \in TreasureLevels \cup {"epic"} :
         LET args == ConfigArgs(seed, n, layout, dead, 0, cf, tf, ef, tl)
             made == DungeonConfig(args)
         IN  /\ config_args' = <<args>>
             /\ config' = made.obj
             /\ config_error' = made.error
    /\ UNCHANGED <<gen_vars, outside_gen>>

----------------------------------------------------------------------------
(* generator/dungeon_generator.py: encounters, safe rooms and the boss *)

\* What _create_combat_encounter, _create_trap_encounter and
\* _add_boss_encounter put into a room's encounter list; boss is the 'boss'
\* key, which only the boss encounter has.
CombatEncounter(monster_ids) ==
    [type |-> "combat", trigger |-> "on_enter", monsters |-> monster_ids,
     boss |-> FALSE]

TrapEncounter ==
    [type |-> "trap", trigger |-> "on_search", monsters |-> <<>>,
     boss |-> FALSE]

BossEncounter(boss_monster) ==
    [type |-> "combat", trigger |-> "on_enter", monsters |-> <<boss_monster>>,
     boss |-> TRUE]

\* int(len(eligible_rooms) * frequency), the frequency in tenths.
NumEncounters(eligible_rooms, frequency) ==
    (Len(eligible_rooms) * frequency) \div 10

\* The position of a room in the shuffled list of eligible rooms, 0 for the
\* start room.
PositionIn(eligible_rooms, room) ==
    IF \E k \in DOMAIN eligible_rooms : eligible_rooms[k] = room
    THEN CHOOSE k \in DOMAIN eligible_rooms : eligible_rooms[k] = room
    ELSE 0

\* A placement that starts the traps at the head of the list, where the
\* combat encounters are, and does not look at what the room holds.
PopulateEncounters_TrapsFromStart(rooms, c, eligible_rooms, monster_ids) ==
    LET num_combat == NumEncounters(eligible_rooms, c.combat_frequency)
        num_traps == NumEncounters(eligible_rooms, c.trap_frequency)
    IN  [r \in DOMAIN rooms |->
            LET i == PositionIn(eligible_rooms, r)
            IN  (IF i \in 1..num_combat
                 THEN <<CombatEncounter(monster_ids[r])>> ELSE <<>>)
                \o (IF i \in 1..num_traps THEN <<TrapEncounter>> ELSE <<>>)]

\* _populate_encounters, eligible_rooms being the list after rng.shuffle and
\* monster_ids[r] the monsters drawn for a combat encounter in room r: the
\* first num_combat rooms of the list get a combat encounter, the num_traps
\* rooms after them a trap unless the room already holds an encounter.
PopulateEncounters(rooms, c, eligible_rooms, monster_ids) ==
    LET num_combat == NumEncounters(eligible_rooms, c.combat_frequency)
        num_traps == NumEncounters(eligible_rooms, c.trap_frequency)
        trap_start == num_combat
    IN  [r \in DOMAIN rooms |->
            LET i == PositionIn(eligible_rooms, r) - 1
                fought == IF i >= 0 /\ i < num_combat
                          THEN Append(rooms[r],
                                      CombatEncounter(monster_ids[r]))
                          ELSE rooms[r]
            IN  IF i >= trap_start /\ i < trap_start + num_traps
                   /\ fought = <<>>
                THEN Append(fought, TrapEncounter)
                ELSE fought]

\* The rooms _designate_safe_rooms draws from: those without encounters,
\* or all rooms when these are fewer than config.safe_rooms.
SafeEligible(rooms, c) ==
    LET eligible_rooms == {r \in DOMAIN rooms : rooms[r] = <<>>}
    IN  IF Cardinality(eligible_rooms) < c.safe_rooms THEN DOMAIN rooms
        ELSE eligible_rooms

\* rng.sample(eligible_rooms, min(config.safe_rooms, len(eligible_rooms)))
SafeSamples(rooms, c) ==
    Samples(SafeEligible(rooms, c),
            Min(c.safe_rooms, Cardinality(SafeEligible(rooms, c))))

\* _add_boss_encounter: the encounters of the last room by id are replaced
\* by the boss.
AddBossEncounter(rooms, boss_monster) ==
    [rooms EXCEPT ![Len(rooms)] = <<BossEncounter(boss_monster)>>]

\* The monsters a combat encounter is given, and the bosses.
MonsterLists == {<<"kobold">>, <<"goblin", "kobold">>}

Bosses == {"ogre", "orc"}

\* generate: self._populate_encounters(rooms, config)
GeneratePopulate ==
    /\ ppc = "rooms"
    /\ \E eligible_rooms \in Samples(DOMAIN room_encounters \ {1},
                                     Len(room_encounters) - 1),
          monster_ids \in [DOMAIN room_encounters -> MonsterLists] :
         room_encounters' = PopulateEncounters(room_encounters, cfg,
                                               eligible_rooms, monster_ids)
    /\ ppc' = "populated"
    /\ UNCHANGED <<cfg_vars, outside_pop, safe_rest, empty_rooms>>

\* generate: self._place_treasures, which leaves encounters and safe_rest
\* alone, and self._designate_safe_rooms(rooms, config).
GenerateSafeRooms ==
    /\ ppc = "populated"
    /\ \E safe_rooms \in SafeSamples(room_encounters, cfg) :
         safe_rest' = [r \in DOMAIN safe_rest |->
                          \/ safe_rest[r]
                          \/ \E k \in DOMAIN safe_rooms : safe_rooms[k] = r]
    /\ empty_rooms' = {r \in DOMAIN room_encounters : room_encounters[r] = <<>>}
    /\ ppc' = "safe"
    /\ UNCHANGED <<cfg_vars, outside_pop, room_encounters>>

\* generate: self._add_descriptions, the boss if config.include_boss, and
\* the return of the dungeon.
GenerateBossAndReturn ==
    /\ ppc = "safe"
    /\ IF cfg.include_boss
       THEN \E boss_monster \in Bosses :
               room_encounters' = AddBossEncounter(room_encounters, boss_monster)
       ELSE UNCHANGED room_encounters
    /\ ppc' = "returned"
    /\ UNCHANGED <<cfg_vars, outside_pop, safe_rest, empty_rooms>>

----------------------------------------------------------------------------
(* engine/combat.py: dice, characters and attack_roll *)

\* A dice notation XdY+Z after parsing.
Dice(n, y, z) == [num_dice |-> n, die_size |-> y, modifier |-> z]

\* sum(random.randint(1, die_size) for _ in range(num_dice))
RECURSIVE DiceSums(_, _)
DiceSums(n, y) ==
    IF n = 0 THEN {0}
    ELSE {a + b : a \in 1..y, b \in DiceSums(n - 1, y)}

\* The values DiceRoller.roll can return for a notation.
RollOutcomes(d) == {t + d.modifier : t \in DiceSums(d.num_dice, d.die_size)}

\* A Weapon: damage dice against small/medium and against large, magic bonus.
Weapon(sm, l, magic) == [damage_sm |-> sm, damage_l |-> l, magic_bonus |-> magic]

\* A combatant.  weapon is <<>> or <<the equipped Weapon>>; damage is <<>>
\* for a character without a damage attribute, else <<its notation>>;
\* to_hit_bonus and damage_bonus are what get_to_hit_bonus() and
\* get_damage_bonus() return.
Character(thac0, ac, hp, size, to_hit, dmg, weapon, damage, incap) ==
    [thac0 |-> thac0, ac |-> ac, hp_current |-> hp, hp_max |-> hp,
     is_alive |-> hp > 0,
     size |-> size, to_hit_bonus |-> to_hit, damage_bonus |-> dmg,
     weapon |-> weapon, damage |-> damage, incapacitated |-> incap]

\* Character.take_damage: hit points drop by the damage, and the character
\* dies when they reach 0 or less.
TakeDamage(c, damage) ==
    [c EXCEPT !.hp_current = @ - damage,
              !.is_alive = c.hp_current - damage > 0]

\* Character.is_incapacitated: dead, or under an incapacitating condition.
IsIncapacitated(c) == ~c.is_alive \/ c.incapacitated

\* weapon.magic_bonus when a weapon is used, else nothing.
MagicBonus(weapon) == IF weapon # <<>> THEN weapon[1].magic_bonus ELSE 0

\* The dice _calculate_damage rolls.
DamageDice(attacker, defender, weapon) ==
    IF weapon # <<>>
    THEN IF defender.size \in {"S", "M"} THEN weapon[1].damage_sm
         ELSE weapon[1].damage_l
    ELSE IF attacker.damage # <<>> THEN attacker.damage[1]
         ELSE Dice(1, 2, 0)

\* A damage computation that doubles only the dice on a critical hit.
CalculateDamage_DoubleDice(attacker, weapon, base_damage, critical) ==
    Max(1, (IF critical THEN base_damage * 2 ELSE base_damage)
           + attacker.damage_bonus + MagicBonus(weapon))

\* _calculate_damage, base_damage being what the dice gave.
CalculateDamage(attacker, weapon, base_damage, critical) ==
    LET damage_bonus == attacker.damage_bonus + MagicBonus(weapon)
        total_damage == base_damage + damage_bonus
    IN  Max(1, IF critical THEN total_damage * 2 ELSE total_damage)

\* A hit test that needs the adjusted roll to exceed the target number.
IsHit_Strict(attacker, defender, weapon, roll) ==
    roll + attacker.to_hit_bonus + MagicBonus(weapon)
        > attacker.thac0 - defender.ac

\* The normal THAC0 test of attack_roll.
IsHit(attacker, defender, weapon, roll) ==
    LET target_number == attacker.thac0 - defender.ac
        to_hit_bonus == attacker.to_hit_bonus + MagicBonus(weapon)
        adjusted_roll == roll + to_hit_bonus
    IN  adjusted_roll >= target_number

\* Whether attack_roll rolls damage dice for this d20 roll.
DiceRolled(attacker, defender, weapon, roll) ==
    roll = 20 \/ (roll # 1 /\ IsHit(attacker, defender, weapon, roll))

\* An attack_roll with no special case for a natural 20.
AttackRoll_NoCritical(attacker, defender, weapon, roll, base_damage) ==
    IF roll # 1 /\ IsHit(attacker, defender, weapon, roll)
    THEN LET damage == CalculateDamage(attacker, weapon, base_damage, FALSE)
             hurt == TakeDamage(defender, damage)
         IN  [hit |-> TRUE, roll |-> roll, damage |-> damage,
              defender_died |-> ~hurt.is_alive, critical |-> "none",
              defender |-> hurt]
    ELSE [hit |-> FALSE, roll |-> roll, damage |-> 0,
          defender_died |-> FALSE,
          critical |-> IF roll = 1 THEN "miss" ELSE "none",
          defender |-> defender]

\* attack_roll: the returned dict, and the defender as the call leaves it.
AttackRoll(attacker, defender, weapon, roll, base_damage) ==
    IF roll = 1
    THEN [hit |-> FALSE, roll |-> 1, damage |-> 0,
          defender_died |-> FALSE, critical |-> "miss",
          defender |-> defender]
    ELSE IF roll = 20
    THEN LET damage == CalculateDamage(attacker, weapon, base_damage, TRUE)
             hurt == TakeDamage(defender, damage)
         IN  [hit |-> TRUE, roll |-> 20, damage |-> damage,
              defender_died |-> ~hurt.is_alive, critical |-> "hit",
              defender |-> hurt]
    ELSE IF IsHit(attacker, defender, weapon, roll)
    THEN LET damage == CalculateDamage(attacker, weapon, base_damage, FALSE)
             hurt == TakeDamage(defender, damage)
         IN  [hit |-> TRUE, roll |-> roll, damage |-> damage,
              defender_died |-> ~hurt.is_alive, critical |-> "none",
              defender |-> hurt]
    ELSE [hit |-> FALSE, roll |-> roll, damage |-> 0,
          defender_died |-> FALSE, critical |-> "none",
          defender |-> defender]

\* The weapons, attackers and defenders attack_roll is called with.
Weapons ==
    {<<>>,
     <<Weapon(Dice(1, 4, 0), Dice(1, 3, 0), 0)>>,
     <<Weapon(Dice(1, 3, 1), Dice(2, 2, 0), 1)>>}

Attackers ==
    {Character(thac0, 10, 5, "M", to_hit, dmg, <<>>, damage, FALSE) :
        thac0 \in {1, 18, 20}, to_hit \in {0, 1}, dmg \in {0 - 2, 0, 1},
        damage \in {<<>>, <<Dice(1, 3, 0)>>}}

Defenders ==
    {Character(20, ac, hp, size, 0, 0, <<>>, <<>>, FALSE) :
        ac \in {0 - 10, 5, 10}, hp \in {1, 5}, size \in {"M", "L"}}

\* attack_roll(attacker, defender, weapon) is called and returns.
AttackRollCall ==
    /\ cpc = "idle"
    /\ \E attacker \in Attackers, defender \in Defenders, weapon \in Weapons,
          roll \in 1..20 :
         \E base_damage \in
              (IF DiceRolled(attacker, defender, weapon, roll)
               THEN RollOutcomes(DamageDice(attacker, defender, weapon))
               ELSE {0}) :
            atk' = <<[attacker |-> attacker, defender |-> defender,
                      weapon |-> weapon, base_damage |-> base_damage,
                      result |-> AttackRoll(attacker, defender, weapon,
                                            roll, base_damage)]>>
    /\ cpc' = "attacked"
    /\ UNCHANGED <<outside_combat, party, monsters, results, acting, turn,
                   attacker_idx, actions>>

\* The caller has used the result; the next attack can be made.
AttackResultUsed ==
    /\ cpc = "attacked"
    /\ cpc' = "idle"
    /\ atk' = <<>>
    /\ UNCHANGED <<outside_combat, party, monsters, results, acting, turn,
                   attacker_idx, actions>>

----------------------------------------------------------------------------
(* engine/combat.py: resolve_combat_round *)

OtherSide(side) == IF side = "party" THEN "monsters" ELSE "party"

\* A choice of the side acting first that gives ties to the monsters.
FirstSide_TieToMonsters(party_init, monster_init) ==
    IF party_init < monster_init THEN "party" ELSE "monsters"

\* "if party_init <= monster_init": the side that acts first.
FirstSide(party_init, monster_init) ==
    IF party_init <= monster_init THEN "party" ELSE "monsters"

Members(side) == IF side = "party" THEN party ELSE monsters

\* A test that is content with one dead member.
AllDead_Any(side) == \E i \in DOMAIN side : ~side[i].is_alive

\* all(not m.is_alive for m in side)
AllDead(side) == \A i \in DOMAIN side : ~side[i].is_alive

\* A choice of targets that leaves the dead among them.
LivingDefenders_All(defenders) == DOMAIN defenders

\* [d for d in defenders if d.is_alive], as positions in defenders.
LivingDefenders(defenders) ==
    {i \in DOMAIN defenders : defenders[i].is_alive}

\* resolve_combat_round(party, monsters) is called: initiative is rolled and
\* the first side's _process_side_actions begins.
RoundStart ==
    /\ cpc = "idle"
    /\ \E party_init \in 1..6, monster_init \in 1..6 :
         /\ results' = [party_initiative |-> party_init,
                        monster_initiative |-> monster_init,
                        party_won |-> FALSE, monsters_won |-> FALSE]
         /\ acting' = FirstSide(party_init, monster_init)
    /\ turn' = 1
    /\ attacker_idx' = 1
    /\ actions' = <<>>
    /\ cpc' = "side"
    /\ UNCHANGED <<outside_combat, atk, party, monsters>>

\* One iteration of "for attacker in attackers" in _process_side_actions.
SideAction ==
    /\ cpc = "side"
    /\ attacker_idx <= Len(Members(acting))
    /\ LET attackers == Members(acting)
           defenders == Members(OtherSide(acting))
           attacker == attackers[attacker_idx]
           living_defenders == LivingDefenders(defenders)
       IN  IF IsIncapacitated(attacker)
           THEN /\ attacker_idx' = attacker_idx + 1
                /\ UNCHANGED <<party, monsters, actions>>
           ELSE IF living_defenders = {}
           THEN /\ attacker_idx' = Len(attackers) + 1
                /\ UNCHANGED <<party, monsters, actions>>
           ELSE \E target \in living_defenders, roll \in 1..20 :
                  \E base_damage \in
                       (IF DiceRolled(attacker, defenders[target],
                                      attacker.weapon, roll)
                        THEN RollOutcomes(DamageDice(attacker,
                                 defenders[target], attacker.weapon))
                        ELSE {0}) :
                    LET result == AttackRoll(attacker, defenders[target],
                                      attacker.weapon, roll, base_damage)
                    IN  /\ IF acting = "party"
                           THEN /\ monsters' = [monsters EXCEPT
                                                  ![target] = result.defender]
                                /\ UNCHANGED party
                           ELSE /\ party' = [party EXCEPT
                                               ![target] = result.defender]
                                /\ UNCHANGED monsters
                        /\ actions' = Append(actions,
                               [side |-> acting, attacker |-> attacker_idx,
                                target |-> target, hit |-> result.hit])
                        /\ attacker_idx' = attacker_idx + 1
    /\ UNCHANGED <<outside_combat, cpc, atk, results, acting, turn>>

\* _process_side_actions has returned: the test that follows it.
SideDone ==
    /\ cpc = "side"
    /\ attacker_idx > Len(Members(acting))
    /\ LET wiped == AllDead(Members(OtherSide(acting)))
           won == IF acting = "party" THEN [results EXCEPT !.party_won = TRUE]
                  ELSE [results EXCEPT !.monsters_won = TRUE]
       IN  IF turn = 1 /\ ~wiped
           THEN /\ acting' = OtherSide(acting)
                /\ turn' = 2
                /\ attacker_idx' = 1
                /\ UNCHANGED <<cpc, results>>
           ELSE /\ results' = (IF wiped THEN won ELSE results)
                /\ cpc' = "returned"
                /\ UNCHANGED <<acting, turn, attacker_idx>>
    /\ UNCHANGED <<outside_combat, atk, party, monsters, actions>>

----------------------------------------------------------------------------
(* entities/player.py: items, Inventory, light *)

\* Item names, and what .lower().replace('_', ' ') makes of each.
Names == {"Torch", "torch", "Lantern", "Hooded Lantern", "Rations (1 day)"}

Normalize(name) ==
    CASE name \in {"Torch", "torch"} -> "torch"
      [] name = "Lantern" -> "lantern"
      [] name = "Hooded Lantern" -> "hooded lantern"
      [] OTHER -> "rations (1 day)"

\* "search_lower in item_name_normalized" on normalized names.
Contains(search_lower, normalized) ==
    \/ search_lower = normalized
    \/ search_lower = "lantern" /\ normalized = "hooded lantern"

\* An item object: a LightSource with its turns_remaining, or a plain Item.
LightSource(name, burn_time_turns) ==
    [class |-> "LightSource", name |-> name,
     turns_remaining |-> burn_time_turns]

Item(name) == [class |-> "Item", name |-> name, turns_remaining |-> 0]

\* The position of the first element of a list that a test accepts, or 0:
\* accepted[i] tells whether the test accepts the i-th element.
FirstIndex(accepted) ==
    IF \E i \in DOMAIN accepted : accepted[i]
    THEN CHOOSE i \in DOMAIN accepted :
            /\ accepted[i]
            /\ \A j \in 1..(i - 1) : ~accepted[j]
    ELSE 0

\* list with the element at position i taken out.
WithoutIndex(list, i) ==
    [j \in 1..(Len(list) - 1) |-> IF j < i THEN list[j] ELSE list[j + 1]]

\* Inventory.get_item / the search of Inventory.remove_item: the position
\* of the first exact match, else of the first partial match, else 0.
\* p.items maps each object to its fields, p.inventory lists objects.
FindItem(p, item_name) ==
    LET search_lower == Normalize(item_name)
        Exact(o) == Normalize(p.items[o].name) = search_lower
        Partial(o) == Contains(search_lower, Normalize(p.items[o].name))
        inventory == p.inventory
        exact == FirstIndex([i \in DOMAIN inventory |-> Exact(inventory[i])])
    IN  IF exact # 0 THEN exact
        ELSE FirstIndex([i \in DOMAIN inventory |-> Partial(inventory[i])])

\* Inventory.remove_item
RemoveItem(p, item_name) ==
    LET i == FindItem(p, item_name)
    IN  IF i = 0 THEN p
        ELSE [p EXCEPT !.inventory = WithoutIndex(p.inventory, i)]

\* PlayerCharacter.has_light
HasLight(p) ==
    /\ p.light_source # 0
    /\ p.items[p.light_source].turns_remaining > 0

\* PlayerCharacter.equip_light
EquipLight(p, light) == [p EXCEPT !.light_source = light]

----------------------------------------------------------------------------
(* engine/time_tracker.py: TimeTracker *)

\* TimeTracker._find_light_source: the first LightSource of the inventory
\* that is not equal to the equipped one (None is equal to no item), or 0.
FindLightSource(p) ==
    LET Spare(o) ==
            /\ p.items[o].class = "LightSource"
            /\ (p.light_source = 0 \/ p.items[o] # p.items[p.light_source])
        i == FirstIndex([k \in DOMAIN p.inventory |-> Spare(p.inventory[k])])
    IN  IF i = 0 THEN 0 ELSE p.inventory[i]

\* A _consume_light in which the light goes out only below 0 turns.
ConsumeLight_OutBelowZero(p) ==
    IF p.light_source = 0 THEN [player |-> p, message |-> ""]
    ELSE LET light_source == p.light_source
             burnt == [p EXCEPT !.items[light_source].turns_remaining = @ - 1]
             left == burnt.items[light_source].turns_remaining
         IN  IF left < 0
             THEN LET removed == RemoveItem(EquipLight(burnt, 0),
                                            burnt.items[light_source].name)
                      new_light == FindLightSource(removed)
                  IN  IF new_light # 0
                      THEN [player |-> EquipLight(removed, new_light),
                            message |-> "new light"]
                      ELSE [player |-> removed, message |-> "darkness"]
             ELSE [player |-> burnt,
                   message |-> IF left = 1 THEN "almost exhausted"
                               ELSE IF left = 3 THEN "burning low" ELSE ""]

\* TimeTracker._consume_light: the player after it and the message returned
\* ("" for None).
ConsumeLight(p) ==
    IF p.light_source = 0 THEN [player |-> p, message |-> ""]
    ELSE LET light_source == p.light_source
             burnt == [p EXCEPT !.items[light_source].turns_remaining = @ - 1]
             left == burnt.items[light_source].turns_remaining
         IN  IF left <= 0
             THEN LET depleted_name == burnt.items[light_source].name
                      removed == RemoveItem(EquipLight(burnt, 0), depleted_name)
                      new_light == FindLightSource(removed)
                  IN  IF new_light # 0
                      THEN [player |-> EquipLight(removed, new_light),
                            message |-> "new light"]
                      ELSE [player |-> removed, message |-> "darkness"]
             ELSE IF left = 1
             THEN [player |-> burnt, message |-> "almost exhausted"]
             ELSE IF left = 3
             THEN [player |-> burnt, message |-> "burning low"]
             ELSE [player |-> burnt, message |-> ""]

\* TimeTracker._check_hunger
CheckHunger(tt) == IF tt.total_hours % 8 = 0 THEN "hungry" ELSE ""

\* An advance_turn that counts an hour on the turn after every sixth.
AdvanceTurn_HourLate(tt, p) ==
    LET turns == tt.turns_elapsed + 1
        light == ConsumeLight(p)
    IN  [time_tracker |-> [turns_elapsed |-> turns,
                           total_hours |-> IF turns % 6 = 1
                                           THEN tt.total_hours + 1
                                           ELSE tt.total_hours],
         player |-> light.player,
         messages |-> IF light.message # "" THEN <<light.message>> ELSE <<>>]

\* TimeTracker.advance_turn: the tracker and the player after the call and
\* the messages returned.
AdvanceTurn(tt, p) ==
    LET turns == tt.turns_elapsed + 1
        light == ConsumeLight(p)
        light_msgs == IF light.message # "" THEN <<light.message>> ELSE <<>>
        hour == turns % 6 = 0
        after == [turns_elapsed |-> turns,
                  total_hours |-> IF hour THEN tt.total_hours + 1
                                  ELSE tt.total_hours]
        hunger_msg == IF hour THEN CheckHunger(after) ELSE ""
    IN  [time_tracker |-> after,
         player |-> light.player,
         messages |-> IF hunger_msg # "" THEN Append(light_msgs, hunger_msg)
                      ELSE light_msgs]

----------------------------------------------------------------------------
(* engine/time_tracker.py: RestSystem *)

\* PlayerCharacter.consume_ration: whether a ration was found, and the
\* player without it.
ConsumeRation(p) ==
    IF FindItem(p, "Rations (1 day)") # 0
    THEN [found |-> TRUE, player |-> RemoveItem(p, "Rations (1 day)")]
    ELSE [found |-> FALSE, player |-> p]

\* Character.heal: hit points rise by the amount, up to hp_max.
Heal(p, amount) ==
    [p EXCEPT !.hp_current = Min(p.hp_max, p.hp_current + amount)]

\* A _recover_hp that reports the roll and not what was recovered.
RecoverHp_ReportsRoll(p, recovery) ==
    IF p.hp_current >= p.hp_max THEN [player |-> p, recovered |-> 0]
    ELSE [player |-> Heal(p, recovery), recovered |-> recovery]

\* RestSystem._recover_hp, recovery being the 1d4 rolled.
RecoverHp(p, recovery) ==
    IF p.hp_current >= p.hp_max THEN [player |-> p, recovered |-> 0]
    ELSE LET old_hp == p.hp_current
             healed == Heal(p, recovery)
         IN  [player |-> healed, recovered |-> healed.hp_current - old_hp]

\* PlayerCharacter.restore_spells
RestoreSpells(p) ==
    [p EXCEPT !.spells_memorized =
                  [i \in DOMAIN p.spells_memorized |->
                      [p.spells_memorized[i] EXCEPT !.is_used = FALSE]]]

\* Character.remove_condition
RemoveCondition(p, condition) ==
    [p EXCEPT !.conditions = @ \ {condition}]

\* The dict attempt_rest returns, with the player as the call leaves it.
RestResult(success, hp_recovered, interrupted, p) ==
    [success |-> success, hp_recovered |-> hp_recovered,
     spells_restored |-> success, interrupted |-> interrupted, player |-> p]

\* An attempt_rest that eats the ration before it looks at the location.
AttemptRest_EatsFirst(p, is_safe, wandering, recovery) ==
    LET eaten == ConsumeRation(p)
    IN  IF ~eaten.found \/ ~is_safe
        THEN RestResult(FALSE, 0, FALSE, eaten.player)
        ELSE IF wandering THEN RestResult(FALSE, 0, TRUE, eaten.player)
        ELSE LET rested == RecoverHp(eaten.player, recovery)
             IN  RestResult(TRUE, rested.recovered, FALSE,
                            RemoveCondition(RestoreSpells(rested.player),
                                            "exhausted"))

\* RestSystem.attempt_rest; wandering is random.random() < 0.15 and
\* recovery the 1d4 of _recover_hp.
AttemptRest(p, is_safe, wandering, recovery) ==
    IF ~is_safe THEN RestResult(FALSE, 0, FALSE, p)
    ELSE LET eaten == ConsumeRation(p)
         IN  IF ~eaten.found THEN RestResult(FALSE, 0, FALSE, eaten.player)
             ELSE IF wandering THEN RestResult(FALSE, 0, TRUE, eaten.player)
             ELSE LET rested == RecoverHp(eaten.player, recovery)
                      restored == RestoreSpells(rested.player)
                      fresh == IF "exhausted" \in restored.conditions
                               THEN RemoveCondition(restored, "exhausted")
                               ELSE restored
                  IN  RestResult(TRUE, rested.recovered, FALSE, fresh)

\* n advance_turn calls, one after the other.  (The tests on tt and p are
\* never true: they have TLC evaluate both before the next call is made.)
RECURSIVE AdvanceTurns(_, _, _)
AdvanceTurns(tt, p, n) ==
    IF n = 0 \/ tt.turns_elapsed < 0 \/ p.light_source < 0
    THEN [time_tracker |-> tt, player |-> p, messages |-> <<>>]
    ELSE LET r == AdvanceTurn(tt, p)
         IN  AdvanceTurns(r.time_tracker, r.player, n - 1)

----------------------------------------------------------------------------
(* entities/player.py: experience and levels *)

\* XP_TABLES: XpTable(c)[n] is the XP total at which level n begins.
XpTable(char_class) ==
    CASE char_class = "Fighter" ->
           <<0, 2000, 4000, 8000, 16000, 32000, 64000, 125000, 250000,
             500000, 750000>>
      [] char_class = "Cleric" ->
           <<0, 1500, 3000, 6000, 13000, 27500, 55000, 110000, 225000,
             450000, 675000>>
      [] char_class = "Magic-User" ->
           <<0, 2500, 5000, 10000, 22500, 40000, 60000, 90000, 135000,
             250000, 375000>>
      [] OTHER ->
           <<0, 1250, 2500, 5000, 10000, 20000, 40000, 70000, 110000,
             160000, 220000>>

XpClasses == {"Fighter", "Cleric", "Magic-User", "Thief"}

\* hit_dice_map: the size of the class's hit die.
HitDie(char_class) ==
    CASE char_class = "Fighter" -> 10
      [] char_class = "Cleric" -> 8
      [] char_class = "Magic-User" -> 4
      [] OTHER -> 6

\* thac0_progression, in hundredths of a point per level.
Thac0Progression(char_class) ==
    CASE char_class = "Fighter" -> 100
      [] char_class = "Cleric" -> 67
      [] char_class = "Magic-User" -> 33
      [] OTHER -> 50

\* PlayerCharacter._level_up, hit_die_roll being DiceRoller.roll(hit_die).
LevelUp(p, hit_die_roll) ==
    LET con_bonus == p.hp_bonus_per_level
        hp_gain == IF con_bonus > 0 THEN hit_die_roll + con_bonus
                   ELSE IF con_bonus < 0
                   THEN Max(1, hit_die_roll + con_bonus)
                   ELSE hit_die_roll
        progress == p.thac0_progress + Thac0Progression(p.char_class)
        thac0_improvement == IF progress >= 100 THEN progress \div 100 ELSE 0
    IN  [p EXCEPT !.level = @ + 1,
                  !.hp_max = @ + hp_gain,
                  !.hp_current = @ + hp_gain,
                  !.thac0 = @ - thac0_improvement,
                  !.thac0_progress = progress - 100 * thac0_improvement]

\* PlayerCharacter.gain_xp.  xp_table[self.level] of the source, counted
\* from 0, is XpTable(...)[level + 1] here.
GainXp(p, amount, hit_die_roll) ==
    LET gained == [p EXCEPT !.xp = @ + amount]
    IN  IF p.char_class \in XpClasses
        THEN LET xp_table == XpTable(p.char_class)
             IN  IF p.level < Len(xp_table) - 1
                 THEN LET xp_needed == xp_table[p.level + 1]
                      IN  IF gained.xp >= xp_needed
                          THEN LevelUp(gained, hit_die_roll)
                          ELSE gained
                 ELSE gained
        ELSE gained

\* The level the XP table gives for an XP total.
LevelFor(char_class, xp) ==
    Cardinality({n \in DOMAIN XpTable(char_class) :
                    XpTable(char_class)[n] <= xp})

----------------------------------------------------------------------------
(* engine/combat.py: DiceRoller.roll *)

\* A dice string is the sequence of its characters.
DigitChars == <<"0", "1", "2", "3", "4", "5", "6", "7", "8", "9">>

IsDigit(c) == \E k \in DOMAIN DigitChars : DigitChars[k] = c

DigitValue(c) == (CHOOSE k \in DOMAIN DigitChars : DigitChars[k] = c) - 1

\* int() of a run of digits.
RECURSIVE ToInt(_)
ToInt(s) ==
    IF s = <<>> THEN 0
    ELSE ToInt(SubSeq(s, 1, Len(s) - 1)) * 10 + DigitValue(s[Len(s)])

\* str.strip() and str.lower() on the characters dice strings are made of.
RECURSIVE Strip(_)
Strip(s) ==
    IF s = <<>> THEN s
    ELSE IF s[1] = " " THEN Strip(Tail(s))
    ELSE IF s[Len(s)] = " " THEN Strip(SubSeq(s, 1, Len(s) - 1))
    ELSE s

Lower(s) ==
    [k \in DOMAIN s |->
        IF s[k] = "D" THEN "d" ELSE IF s[k] = "G" THEN "g" ELSE s[k]]

\* The length of the longest run of digits of s that starts at position i.
RECURSIVE DigitRun(_, _)
DigitRun(s, i) ==
    IF i <= Len(s) /\ IsDigit(s[i]) THEN 1 + DigitRun(s, i + 1) ELSE 0

\* A parse in which a missing number of dice stands for no dice.
ParseDice_NoDefault(s) ==
    LET n1 == DigitRun(s, 1)
        n2 == DigitRun(s, n1 + 2)
        n3 == DigitRun(s, n1 + n2 + 3)
    IN  [matched |-> n1 < Len(s) /\ s[n1 + 1] = "d" /\ n2 >= 1,
         num_dice |-> ToInt(SubSeq(s, 1, n1)),
         die_size |-> ToInt(SubSeq(s, n1 + 2, n1 + 1 + n2)),
         modifier |->
             IF n1 + n2 + 2 <= Len(s) /\ s[n1 + n2 + 2] \in {"+", "-"}
                /\ n3 >= 1
             THEN (IF s[n1 + n2 + 2] = "-" THEN 0 - 1 ELSE 1)
                  * ToInt(SubSeq(s, n1 + n2 + 3, n1 + n2 + 2 + n3))
             ELSE 0]

\* re.match(r'(\d*)d(\d+)([+\-]\d+)?', dice_string) and the three numbers
\* roll takes from its groups.  The match starts at the first character and
\* need not reach the last; each group takes the longest run of digits, as
\* what follows a group is never a digit.
ParseDice(s) ==
    LET n1 == DigitRun(s, 1)
        n2 == DigitRun(s, n1 + 2)
        sign == n1 + n2 + 2
        n3 == DigitRun(s, sign + 1)
        group3 == sign <= Len(s) /\ s[sign] \in {"+", "-"} /\ n3 >= 1
    IN  [matched |-> n1 < Len(s) /\ s[n1 + 1] = "d" /\ n2 >= 1,
         num_dice |-> IF n1 > 0 THEN ToInt(SubSeq(s, 1, n1)) ELSE 1,
         die_size |-> ToInt(SubSeq(s, n1 + 2, n1 + 1 + n2)),
         modifier |->
             IF group3
             THEN (IF s[sign] = "-" THEN 0 - 1 ELSE 1)
                  * ToInt(SubSeq(s, sign + 1, sign + n3))
             ELSE 0]

\* The branch of roll for a string without 'd': int() of a number, eval()
\* of a number plus or minus a number.
FlatValue(s) ==
    LET k == FirstIndex([i \in DOMAIN s |-> s[i] \in {"+", "-"}])
    IN  IF k = 0 THEN ToInt(s)
        ELSE IF s[k] = "+"
        THEN ToInt(SubSeq(s, 1, k - 1)) + ToInt(SubSeq(s, k + 1, Len(s)))
        ELSE ToInt(SubSeq(s, 1, k - 1)) - ToInt(SubSeq(s, k + 1, Len(s)))

RECURSIVE SumSeq(_)
SumSeq(s) == IF s = <<>> THEN 0 ELSE s[1] + SumSeq(Tail(s))

\* The sequences of values the random.randint(1, die_size) calls of one roll
\* can give: none for a string without 'd' or without a match.
Draws(dice_string) ==
    LET s == Lower(Strip(dice_string))
        parsed == ParseDice(s)
    IN  IF (\E k \in DOMAIN s : s[k] = "d") /\ parsed.matched
           /\ parsed.die_size >= 1
        THEN [1..parsed.num_dice -> 1..parsed.die_size]
        ELSE {<<>>}

\* DiceRoller.roll(dice_string), draws being what random.randint gave: the
\* value returned, or the exception raised.
Roll(dice_string, draws) ==
    LET s == Lower(Strip(dice_string))
        parsed == ParseDice(s)
    IN  IF ~\E k \in DOMAIN s : s[k] = "d"
        THEN [raised |-> "", value |-> FlatValue(s)]
        ELSE IF ~parsed.matched
        THEN [raised |-> "ValueError", value |-> 0]
        ELSE IF parsed.num_dice >= 1 /\ parsed.die_size < 1
        THEN [raised |-> "ValueError", value |-> 0]
        ELSE [raised |-> "", value |-> SumSeq(draws) + parsed.modifier]

\* The decimal numeral of a number below 100.
Numeral(n) ==
    IF n < 10 THEN <<DigitChars[n + 1]>>
    ELSE <<DigitChars[(n \div 10) + 1], DigitChars[(n % 10) + 1]>>

\* The notation with x dice (<<>> when the number is left out) of y sides
\* and modifier z (<<>>, or <<sign, amount>>).
Notation(x, y, z) ==
    (IF Len(x) = 0 THEN <<>> ELSE Numeral(x[1]))
        \o <<"d">> \o Numeral(y)
        \o (IF Len(z) = 0 THEN <<>> ELSE <<z[1]>> \o Numeral(z[2]))

\* The parts the notations of the model are made of.
DiceCounts == {<<>>} \cup {<<n>> : n \in 1..MaxDice}
DieSizes == {1, 2, 6, 10}
Modifiers == {<<>>, <<"+", 1>>, <<"-", 1>>, <<"-", 2>>, <<"+", 10>>}

\* The strings roll is called with: the notations, a notation in capitals
\* between blanks, flat numbers, a die without sides and strings that are
\* no notation.
DiceStrings ==
    {Notation(x, y, z) : x \in DiceCounts, y \in DieSizes, z \in Modifiers}
    \cup {<<" ", "2", "D", "6", " ">>, <<"4", "+", "1">>, <<"3">>,
          <<"5", "-", "2">>, <<"1", "d", "0">>, <<"d">>, <<"2", "d">>,
          <<"x", "d", "6">>}

\* DiceRoller.roll(dice_string) is called and returns or raises.
RollCall ==
    /\ cpc = "idle"
    /\ \E dice_string \in DiceStrings :
         \E draws \in Draws(dice_string) :
            atk' = <<[dice_string |-> dice_string, draws |-> draws,
                      result |-> Roll(dice_string, draws)]>>
    /\ cpc' = "rolled"
    /\ UNCHANGED <<outside_combat, party, monsters, results, acting, turn,
                   attacker_idx, actions>>

\* The caller has used the value; the next roll can be made.
RollResultUsed ==
    /\ cpc = "rolled"
    /\ cpc' = "idle"
    /\ atk' = <<>>
    /\ UNCHANGED <<outside_combat, party, monsters, results, acting, turn,
                   attacker_idx, actions>>

----------------------------------------------------------------------------
(* world/dungeon.py and the encounters of engine/game_state.py *)

\* A GameState g holds the dungeon with it: g.exits[r][d] is the target of
\* room r's exit in direction d (0 for none), g.encounters[r] the raw
\* encounter records of r, g.encounters_completed[r] the ids completed in
\* r, g.safe the rooms safe for rest.  0 stands for None.

\* Room.has_exit
HasExit(g, room_id, direction) ==
    /\ direction \in DOMAIN g.exits[room_id]
    /\ g.exits[room_id][direction] # 0

\* Dungeon.get_room
GetRoom(g, room_id) == IF room_id \in DOMAIN g.exits THEN room_id ELSE 0

\* A move that looks up the exit without asking has_exit first.
Move_NoExitTest(g, current_room_id, direction) ==
    IF GetRoom(g, current_room_id) = 0 THEN 0
    ELSE IF direction \in DOMAIN g.exits[current_room_id]
         THEN GetRoom(g, g.exits[current_room_id][direction])
         ELSE current_room_id

\* Dungeon.move
Move(g, current_room_id, direction) ==
    LET current_room == GetRoom(g, current_room_id)
    IN  IF current_room = 0 THEN 0
        ELSE IF ~HasExit(g, current_room, direction) THEN 0
        ELSE GetRoom(g, g.exits[current_room][direction])

\* The id EncounterManager.load_room_encounters gives the i-th encounter
\* record of a room.
EncounterId(room_id, i) == <<room_id, i>>

\* EncounterManager.get_triggered_encounters: the positions of the room's
\* encounters that have the trigger, in order.
TriggeredEncounters(g, trigger_type) ==
    LET encounters == g.encounters[g.current_room]
    IN  SelectSeq([i \in DOMAIN encounters |-> i],
                  LAMBDA i : encounters[i].trigger = trigger_type)

\* The monster catalog (game_data.monsters) and the Monster made from an
\* entry, hp being what DiceRoller.roll(hit_dice) gave.
Catalog == {"kobold", "goblin"}

CreateMonster(monster_id, hp) ==
    Character(IF monster_id = "kobold" THEN 20 ELSE 19, 7, hp, "S", 0, 0,
              <<>>, <<Dice(1, 2, 0)>>, FALSE)
        @@ [xp_value |-> IF monster_id = "kobold" THEN 250 ELSE 1000]

\* GameState._start_combat: the monsters of the encounter that the catalog
\* knows are created, hps[k] being the hit points rolled for the k-th.
StartCombat(g, encounter_id, encounter, hps) ==
    LET known == SelectSeq(encounter.monsters, LAMBDA id : id \in Catalog)
    IN  [g EXCEPT !.active_monsters =
                      [k \in DOMAIN known |-> CreateMonster(known[k], hps[k])],
                  !.in_combat = TRUE,
                  !.started = Append(@, encounter_id)]

\* A _check_encounters that does not record the encounter as completed.
CheckEncounters_NotRecorded(g, trigger_type, hps) ==
    LET room == g.current_room
        triggered == TriggeredEncounters(g, trigger_type)
        Starts(i) == g.encounters[room][i].type = "combat"
        k == FirstIndex([j \in DOMAIN triggered |-> Starts(triggered[j])])
    IN  IF k = 0 THEN g
        ELSE StartCombat(g, EncounterId(room, triggered[k]),
                         g.encounters[room][triggered[k]], hps)

\* GameState._check_encounters: the first triggered encounter that is not
\* completed and is a CombatEncounter is recorded as completed and started.
CheckEncounters(g, trigger_type, hps) ==
    LET room == g.current_room
        triggered == TriggeredEncounters(g, trigger_type)
        Starts(i) ==
            /\ \A c \in DOMAIN g.encounters_completed[room] :
                  g.encounters_completed[room][c] # EncounterId(room, i)
            /\ g.encounters[room][i].type = "combat"
        k == FirstIndex([j \in DOMAIN triggered |-> Starts(triggered[j])])
    IN  IF k = 0 THEN g
        ELSE LET i == triggered[k]
                 marked == [g EXCEPT !.encounters_completed[room] =
                                         Append(@, EncounterId(room, i))]
             IN  StartCombat(marked, EncounterId(room, i),
                             g.encounters[room][i], hps)

\* The d20 rolls the session's attacks are given: a natural 1, a roll that
\* hits for the attackers of the session, and a natural 20.
D20 == {1, 15, 20}

\* The monsters' counter-attacks of _handle_attack from the k-th monster on:
\* each living monster attacks the player, and the loop ends when the player
\* dies.
RECURSIVE CounterAttacks(_, _, _, _, _)
CounterAttacks(p, active, k, rolls, damages) ==
    IF k > Len(active) THEN p
    ELSE IF ~active[k].is_alive
    THEN CounterAttacks(p, active, k + 1, rolls, damages)
    ELSE LET monster_result ==
                 AttackRoll(active[k], p, <<>>, rolls[k], damages[k])
         IN  IF monster_result.defender_died THEN monster_result.defender
             ELSE CounterAttacks(monster_result.defender, active, k + 1,
                                 rolls, damages)

\* What a handler leaves behind: the dict it returns and the objects it
\* worked on.
Outcome(success, g, p, tt, advanced) ==
    [success |-> success, game |-> g, player |-> p, time_tracker |-> tt,
     advanced |-> advanced]

\* GameState._handle_move
Moved(g, p, tt, direction, hps) ==
    IF g.in_combat THEN Outcome(FALSE, g, p, tt, 0)
    ELSE IF direction = "" THEN Outcome(FALSE, g, p, tt, 0)
    ELSE LET new_room == Move(g, g.current_room, direction)
         IN  IF new_room = 0 THEN Outcome(FALSE, g, p, tt, 0)
             ELSE LET entered == [g EXCEPT !.current_room = new_room]
                      t == AdvanceTurn(tt, p)
                  IN  Outcome(TRUE, CheckEncounters(entered, "on_enter", hps),
                              t.player, t.time_tracker, 1)

\* GameState._handle_search
Searched(g, p, tt, hps) ==
    LET t == AdvanceTurn(tt, p)
    IN  Outcome(TRUE, CheckEncounters(g, "on_search", hps),
                t.player, t.time_tracker, 1)

\* GameState._handle_attack with no target named and no party: the first
\* living monster is attacked with the player's weapon.
Attacked(g, p, tt, roll, base_damage, hit_die_roll, rolls, damages) ==
    LET k == FirstIndex([j \in DOMAIN g.active_monsters |->
                            g.active_monsters[j].is_alive])
    IN  IF g.active_monsters = <<>> \/ k = 0 THEN Outcome(FALSE, g, p, tt, 0)
        ELSE
        LET target == g.active_monsters[k]
            result == AttackRoll(p, target, p.weapon, roll, base_damage)
            died == result.defender_died
            active == IF died THEN WithoutIndex(g.active_monsters, k)
                      ELSE [g.active_monsters EXCEPT ![k] = result.defender]
            winner == IF died THEN GainXp(p, target.xp_value, hit_die_roll)
                      ELSE p
            fought == [g EXCEPT !.active_monsters = active]
        IN  IF died /\ \A j \in DOMAIN active : ~active[j].is_alive
            THEN Outcome(TRUE, [fought EXCEPT !.in_combat = FALSE],
                         winner, tt, 0)
            ELSE LET struck == CounterAttacks(winner, active, 1, rolls, damages)
                 IN  IF ~struck.is_alive
                     THEN Outcome(FALSE, [fought EXCEPT !.is_active = FALSE],
                                  struck, tt, 0)
                     ELSE LET t == AdvanceTurn(tt, struck)
                          IN  Outcome(TRUE, fought, t.player,
                                      t.time_tracker, 1)

----------------------------------------------------------------------------
(* The session: a player, a TimeTracker and the calls made on them *)

\* TimeTracker.__init__
NewTimeTracker == [turns_elapsed |-> 0, total_hours |-> 0]

\* A PlayerCharacter with nothing in the inventory and nothing equipped; it
\* has the fields of a Character too (weapon is equipment.weapon, damage is
\* <<>> as a PlayerCharacter has no damage attribute).
\* items maps every item object to its fields; inventory lists the objects
\* of inventory.items; light_source is the object equipment.light_source
\* refers to, 0 for None.
NewPlayer ==
    [items |-> <<>>, inventory |-> <<>>, light_source |-> 0,
     hp_current |-> 1, hp_max |-> 1, spells_memorized |-> <<>>,
     conditions |-> {}, char_class |-> "Fighter", level |-> 1, xp |-> 0,
     thac0 |-> 20, thac0_progress |-> 0, hp_bonus_per_level |-> 0,
     ac |-> 10, size |-> "M", is_alive |-> TRUE, to_hit_bonus |-> 0,
     damage_bonus |-> 0, weapon |-> <<>>, damage |-> <<>>,
     incapacitated |-> FALSE]

\* No GameState has been constructed.
NoGame ==
    [exits |-> <<>>, safe |-> {}, encounters |-> <<>>,
     encounters_completed |-> <<>>, current_room |-> 0,
     in_combat |-> FALSE, active_monsters |-> <<>>, is_active |-> FALSE,
     started |-> <<>>]

\* No call has been made: advance_calls counts the advance_turn calls.
NoCall ==
    [op |-> "none", advance_calls |-> 0, messages |-> <<>>,
     player_before |-> NewPlayer, tracker_before |-> NewTimeTracker,
     game_before |-> NoGame, result |-> <<>>]

\* time_tracker.advance_turn(player) is called, as the handlers of the
\* time-consuming commands do.
AdvanceTurnCall ==
    /\ time_tracker.turns_elapsed < MaxTurns
    /\ LET r == AdvanceTurn(time_tracker, player)
       IN  /\ time_tracker' = r.time_tracker
           /\ player' = r.player
           /\ last' = [last EXCEPT !.op = "advance_turn",
                                   !.advance_calls = @ + 1,
                                   !.messages = r.messages,
                                   !.player_before = player,
                                   !.tracker_before = time_tracker]
    /\ UNCHANGED <<outside_session, game>>

\* GameState._handle_equip on a target that names an inventory item: a
\* LightSource is equipped, a plain item is refused.
HandleEquip ==
    /\ \E target \in Names :
         LET i == FindItem(player, target)
         IN  /\ i # 0
             /\ IF player.items[player.inventory[i]].class = "LightSource"
                THEN /\ player' = EquipLight(player, player.inventory[i])
                     /\ last' = [last EXCEPT !.op = "equip",
                                   !.messages = <<"You light">>,
                                   !.player_before = player,
                                   !.tracker_before = time_tracker]
                ELSE /\ player' = player
                     /\ last' = [last EXCEPT !.op = "equip",
                                   !.messages = <<"You can't equip">>,
                                   !.player_before = player,
                                   !.tracker_before = time_tracker]
    /\ UNCHANGED <<outside_session, time_tracker, game>>

\* GameState._handle_rest: attempt_rest in the current room, and 48
\* advance_turn calls when it succeeded.
HandleRest ==
    /\ \E wandering \in BOOLEAN, recovery \in 1..4 :
         LET r == AttemptRest(player, game.current_room \in game.safe,
                              wandering, recovery)
             slept == AdvanceTurns(time_tracker, r.player, RestTurns)
         IN  /\ player' = (IF r.success THEN slept.player ELSE r.player)
             /\ time_tracker' = (IF r.success THEN slept.time_tracker
                                 ELSE time_tracker)
             /\ last' = [last EXCEPT
                           !.op = "rest",
                           !.advance_calls = IF r.success THEN @ + RestTurns
                                             ELSE @,
                           !.messages = <<>>,
                           !.player_before = player,
                           !.tracker_before = time_tracker,
                           !.game_before = game,
                           !.result = <<r>>]
    /\ UNCHANGED <<outside_session, game>>

\* player.gain_xp(amount) is called, as _handle_attack does with the
\* xp_value of a monster that died.
GainXpCall ==
    /\ \E amount \in {250, 1000, 2500},
          hit_die_roll \in {1, HitDie(player.char_class)} :
         /\ player.xp + amount <= MaxXp
         /\ player' = GainXp(player, amount, hit_die_roll)
         /\ last' = [last EXCEPT !.op = "gain_xp",
                                 !.messages = <<>>,
                                 !.player_before = player,
                                 !.tracker_before = time_tracker,
                                 !.result = <<[amount |-> amount]>>]
    /\ UNCHANGED <<outside_session, time_tracker, game>>

\* The call a handler's outcome is recorded as.
Call(op, target, r) ==
    [last EXCEPT !.op = op,
                 !.advance_calls = @ + r.advanced,
                 !.messages = <<>>,
                 !.player_before = player,
                 !.tracker_before = time_tracker,
                 !.game_before = game,
                 !.result = <<[success |-> r.success, target |-> target]>>]

\* The hit points rolled for the monsters of an encounter, and the d20 and
\* damage rolls of the monsters in a round of counter-attacks.
HitPoints == [1..2 -> 1..2]

MonsterRolls == [1..2 -> {1, 15}]

MonsterDamages == {<<1, 1>>, <<2, 1>>}

\* The command "move <direction>", or "move" alone, is executed.
HandleMove ==
    /\ game.is_active
    /\ time_tracker.turns_elapsed < MaxGameTurns
    /\ \E direction \in Dirs \cup {"", "up"}, hps \in HitPoints :
         LET r == Moved(game, player, time_tracker, direction, hps)
         IN  /\ game' = r.game
             /\ player' = r.player
             /\ time_tracker' = r.time_tracker
             /\ last' = Call("move", direction, r)
    /\ UNCHANGED outside_session

\* The command "search" is executed.
HandleSearch ==
    /\ game.is_active
    /\ time_tracker.turns_elapsed < MaxGameTurns
    /\ \E hps \in HitPoints :
         LET r == Searched(game, player, time_tracker, hps)
         IN  /\ game' = r.game
             /\ player' = r.player
             /\ time_tracker' = r.time_tracker
             /\ last' = Call("search", "", r)
    /\ UNCHANGED outside_session

\* The command "attack" is executed.
HandleAttack ==
    /\ game.is_active
    /\ time_tracker.turns_elapsed < MaxGameTurns
    /\ \E roll \in D20, base_damage \in 1..2,
          hit_die_roll \in {1, HitDie(player.char_class)},
          rolls \in MonsterRolls, damages \in MonsterDamages :
         LET r == Attacked(game, player, time_tracker, roll, base_damage,
                           hit_die_roll, rolls, damages)
         IN  /\ game' = r.game
             /\ player' = r.player
             /\ time_tracker' = r.time_tracker
             /\ last' = Call("attack", "", r)
    /\ UNCHANGED outside_session

\* player.gain_xp(amount) is called with the XP the player lacks for the
\* next level, so that the call levels the player up.
GainLevelCall ==
    /\ player.level < MaxLevel
    /\ \E hit_die_roll \in {1, HitDie(player.char_class)} :
         LET amount == XpTable(player.char_class)[player.level + 1]
                           - player.xp
         IN  /\ player' = GainXp(player, amount, hit_die_roll)
             /\ last' = [last EXCEPT !.op = "gain_xp",
                                     !.messages = <<>>,
                                     !.player_before = player,
                                     !.tracker_before = time_tracker,
                                     !.result = <<[amount |-> amount]>>]
    /\ UNCHANGED <<outside_session, time_tracker, game>>

\* The item objects of a session with light: object 1 is the LightSource
\* that is equipped, with between 1 and MaxBurn turns remaining; objects 2
\* and 3 are unused light sources or rations.
LightItems ==
    {<<[LightSource(n1, MaxBurn) EXCEPT !.turns_remaining = b], o2, o3>> :
        n1 \in {"Torch", "Lantern"}, b \in 1..MaxBurn,
        o2 \in {LightSource("Torch", MaxBurn), Item("Rations (1 day)")},
        o3 \in {LightSource("Torch", MaxBurn),
                LightSource("Hooded Lantern", MaxBurn),
                Item("Rations (1 day)")}}

\* The inventories: the objects carried, in the order they were added; the
\* equipped light source may be one of them (it was equipped from the
\* inventory) or not (the torch _add_starting_equipment equips).
Inventories ==
    {inv \in UNION {[1..n -> 1..3] : n \in 0..3} :
        \A i, j \in DOMAIN inv : i # j => inv[i] # inv[j]}

----------------------------------------------------------------------------
(* world/dungeon.py and storage/scenario_library.py: saved scenarios *)

\* Names are strings of characters; room ids and item ids are atoms.
RoomIds == {"test_001", "test_002"}

GeneratedDungeon ==
    <<"G", "e", "n", "e", "r", "a", "t", "e", "d", " ",
      "D", "u", "n", "g", "e", "o", "n">>

\* Room(id, title, ..., items, is_safe_for_rest): a room that is not
\* explored and has completed no encounter.
Room(id, title, items, is_safe_for_rest) ==
    [id |-> id, title |-> title, items |-> items,
     is_safe_for_rest |-> is_safe_for_rest,
     is_explored |-> FALSE, encounters_completed |-> <<>>]

\* dict.get(key, default) of a room_data dict.
GetOr(d, key, default) == IF key \in DOMAIN d THEN d[key] ELSE default

\* Dungeon.load_from_generator: the dungeon built from the dict, or the
\* KeyError of the first key that is read and missing.
LoadFromGenerator(dungeon_data) ==
    IF "start_room" \notin DOMAIN dungeon_data
    THEN [raised |-> "KeyError: 'start_room'", dungeon |-> <<>>]
    ELSE IF "rooms" \notin DOMAIN dungeon_data
    THEN [raised |-> "KeyError: 'rooms'", dungeon |-> <<>>]
    ELSE [raised |-> "",
          dungeon |->
            <<[name |-> GetOr(dungeon_data, "name", GeneratedDungeon),
               start_room_id |-> dungeon_data["start_room"],
               rooms |->
                 [room_id \in DOMAIN dungeon_data["rooms"] |->
                    LET room_data == dungeon_data["rooms"][room_id]
                    IN  Room(room_data["id"], room_data["title"],
                             GetOr(room_data, "items", <<>>),
                             GetOr(room_data, "safe_rest", FALSE))]]>>]

\* Dungeon.serialize.
Serialize(dungeon) ==
    [name |-> dungeon.name,
     start_room_id |-> dungeon.start_room_id,
     room_states |->
       [room_id \in DOMAIN dungeon.rooms |->
          [is_explored |-> dungeon.rooms[room_id].is_explored,
           items |-> dungeon.rooms[room_id].items,
           encounters_completed |->
               dungeon.rooms[room_id].encounters_completed]]]

\* json.dump of a dict writes its members, json.load reads them back into
\* a dict.
JsonDump(d) == {<<key, d[key]>> : key \in DOMAIN d}

JsonLoad(text) ==
    [key \in {member[1] : member \in text} |->
        (CHOOSE member \in text : member[1] = key)[2]]

\* scenario_name.lower().replace(' ', '_') and the id: the file name.
FileName(scenario_name, scenario_id) ==
    <<[k \in DOMAIN scenario_name |->
          IF Lower(scenario_name)[k] = " " THEN "_"
          ELSE Lower(scenario_name)[k]],
      scenario_id>>

\* ScenarioLibrary.save_scenario: the directory afterwards.  A scenario_name
\* of <<>> stands for None; the time of creation is left out.
SaveScenario(dir, dungeon, scenario_name, scenario_id) ==
    LET name == IF scenario_name = <<>> THEN dungeon.name
                ELSE scenario_name
        scenario_data ==
            [id |-> scenario_id, name |-> name,
             description |-> "", difficulty |-> "medium",
             dungeon_data |-> Serialize(dungeon),
             num_rooms |-> Cardinality(DOMAIN dungeon.rooms),
             start_room |-> dungeon.start_room_id]
        filename == FileName(name, scenario_id)
    IN  [f \in DOMAIN dir \cup {filename} |->
            IF f = filename THEN JsonDump(scenario_data) ELSE dir[f]]

\* ScenarioLibrary.save_scenario_from_data: the directory afterwards.
SaveScenarioFromData(dir, scenario_name, dungeon_data, dungeon_name, scenario_id) ==
    LET name == IF scenario_name = <<>> THEN dungeon_name
                ELSE scenario_name
        scenario_data ==
            [id |-> scenario_id, name |-> name,
             description |-> "", difficulty |-> "medium",
             dungeon_data |-> dungeon_data,
             num_rooms |-> Cardinality(DOMAIN GetOr(dungeon_data, "rooms",
                                                    <<>>)),
             start_room |-> GetOr(dungeon_data, "start_room_id", "room_0")]
        filename == FileName(name, scenario_id)
    IN  [f \in DOMAIN dir \cup {filename} |->
            IF f = filename THEN JsonDump(scenario_data) ELSE dir[f]]

\* ScenarioLibrary.load_scenario by id: the scenarios it can return, one
\* for each file with that id (glob yields the files in no fixed order);
\* None, written <<>>, when there is no such file.
LoadScenario(dir, scenario_id) ==
    LET found == {JsonLoad(dir[f]) : f \in DOMAIN dir}
        hits == {<<data>> : data \in {d \in found : d.id = scenario_id}}
    IN  IF hits = {} THEN {<<>>} ELSE hits

\* ScenarioLibrary.create_dungeon_from_scenario.
CreateDungeonFromScenario(scenario_data) ==
    LoadFromGenerator(scenario_data["dungeon_data"])

\* create_dungeon_from_scenario called with what load_scenario returned:
\* None has no 'dungeon_data'.
CreateDungeonFrom(loaded) ==
    IF Len(loaded) = 0
    THEN [raised |-> "TypeError: 'NoneType' object is not subscriptable",
          dungeon |-> <<>>]
    ELSE CreateDungeonFromScenario(loaded[1])

ScenarioNames == {<<"D", " ", "1">>, <<"d", "_", "1">>}

ScenarioIds == {"a1", "b2"}

\* Dicts as DungeonGenerator.generate returns them, and one without a name.
GeneratorOutputs ==
    {[name |-> <<"D", " ", "1">>, start_room |-> "test_001",
      rooms |-> [r \in RoomIds |->
                   [id |-> r, title |-> "Room", items |-> <<"torch">>]]],
     [name |-> <<"d", "_", "1">>, start_room |-> "test_002",
      rooms |-> [r \in {"test_002"} |->
                   [id |-> r, title |-> "Room", safe_rest |-> TRUE]]],
     [start_room |-> "test_001",
      rooms |-> [r \in RoomIds |-> [id |-> r, title |-> "Room"]]]}

\* Dungeons in play: loaded from a generated dict, the start room explored.
Dungeons_InPlay ==
    {LET dungeon == LoadFromGenerator(data).dungeon[1]
     IN  [dungeon EXCEPT !.rooms[dungeon.start_room_id].is_explored = TRUE]
       : data \in GeneratorOutputs}

NoOrigin == [by |-> "", dungeon |-> <<>>]

NoLibCall ==
    [op |-> "", origin |-> NoOrigin, scenario |-> <<>>,
     result |-> [raised |-> "", dungeon |-> <<>>]]

\* The record of who wrote the files, after filename was written.
Written(dir, filename, origin) ==
    [f \in DOMAIN dir |-> IF f = filename THEN origin ELSE saved_from[f]]

\* save_scenario(dungeon, scenario_name, scenario_id=...); an id that the
\* library draws itself is any id.
SaveScenarioCall ==
    /\ \E dungeon \in Dungeons_InPlay,
          scenario_name \in {<<>>} \cup ScenarioNames,
          scenario_id \in ScenarioIds :
         LET name == IF scenario_name = <<>> THEN dungeon.name
                     ELSE scenario_name
             dir == SaveScenario(scenarios_dir, dungeon, scenario_name,
                                 scenario_id)
         IN  /\ scenarios_dir' = dir
             /\ saved_from' =
                  Written(dir, FileName(name, scenario_id),
                          [by |-> "save_scenario", dungeon |-> <<dungeon>>])
    /\ UNCHANGED <<lib_last, outside_lib>>

\* save_scenario_from_data(scenario_name, '', dungeon_data, dungeon_name).
SaveScenarioFromDataCall ==
    /\ \E dungeon_data \in GeneratorOutputs,
          scenario_name \in {<<>>} \cup ScenarioNames,
          dungeon_name \in {<<"d", "_", "1">>},
          scenario_id \in ScenarioIds :
         LET name == IF scenario_name = <<>> THEN dungeon_name
                     ELSE scenario_name
             dir == SaveScenarioFromData(scenarios_dir, scenario_name,
                                         dungeon_data, dungeon_name,
                                         scenario_id)
         IN  /\ scenarios_dir' = dir
             /\ saved_from' =
                  Written(dir, FileName(name, scenario_id),
                          [by |-> "save_scenario_from_data",
                           dungeon |-> <<>>])
    /\ UNCHANGED <<lib_last, outside_lib>>

\* load_scenario(scenario_id).
LoadScenarioCall ==
    /\ \E scenario_id \in ScenarioIds :
       \E loaded \in LoadScenario(scenarios_dir, scenario_id) :
         lib_last' =
           [op |-> "load_scenario",
            origin |-> IF Len(loaded) = 0 THEN NoOrigin
                       ELSE saved_from[FileName(loaded[1].name, scenario_id)],
            scenario |-> loaded,
            result |-> [raised |-> "", dungeon |-> <<>>]]
    /\ UNCHANGED <<scenarios_dir, saved_from, outside_lib>>

\* create_dungeon_from_scenario(scenario) with the scenario just loaded.
CreateDungeonCall ==
    /\ lib_last.op = "load_scenario"
    /\ lib_last' = [lib_last EXCEPT
                      !.op = "create_dungeon_from_scenario",
                      !.result = CreateDungeonFrom(lib_last.scenario)]
    /\ UNCHANGED <<scenarios_dir, saved_from, outside_lib>>

----------------------------------------------------------------------------
(* web_ui/app.py: the sessions of the web layer *)

\* new_game creates a party of four members, numbered from 0.
PartySize == 4

SessionIds == {"default", "s2"}

\* The requests that the threaded server handles at the same time.
Requests == {"A", "B"}

\* The values of 'active_character' that clients send; the last is no index
\* of a party member.
ActiveCharacters == {0, 1, PartySize}

NoRequest ==
    [pc |-> "idle", session_id |-> "", active_character |-> 0,
     game_state |-> 0, ran_as |-> 0 - 1, success |-> FALSE]

\* GameState(party.members[0], dungeon): the active player is member 0 and
\* no command has acted yet.
NewGameState == [player |-> 0, acted |-> 0 - 1]

\* /api/new_game: a new GameState replaces the one of the session.
NewGame ==
    /\ Len(game_states) < MaxGames
    /\ \E session_id \in SessionIds :
         /\ game_states' = Append(game_states, NewGameState)
         /\ active_games' =
              [active_games EXCEPT ![session_id] = Len(game_states) + 1]
    /\ UNCHANGED <<requests, outside_web>>

\* /api/command, up to active_games.get(session_id): without a game the
\* request is answered with an error.
CommandLookup ==
    /\ \E r \in Requests, session_id \in SessionIds,
          active_character_index \in ActiveCharacters :
         /\ requests[r].pc \in {"idle", "done"}
         /\ LET game_state == active_games[session_id]
            IN  requests' =
                  [requests EXCEPT ![r] =
                     IF game_state = 0
                     THEN [NoRequest EXCEPT
                             !.pc = "done",
                             !.active_character = active_character_index]
                     ELSE [NoRequest EXCEPT
                             !.pc = "found",
                             !.session_id = session_id,
                             !.active_character = active_character_index,
                             !.game_state = game_state]]
    /\ UNCHANGED <<active_games, game_states, outside_web>>

\* /api/command: game_state.player = party.members[active_character_index]
\* when the index is one of a member.
CommandSwitch ==
    /\ \E r \in Requests :
         /\ requests[r].pc = "found"
         /\ requests' = [requests EXCEPT ![r].pc = "switched"]
         /\ LET index == requests[r].active_character
            IN  IF 0 <= index /\ index < PartySize
                THEN game_states' =
                       [game_states EXCEPT
                          ![requests[r].game_state].player = index]
                ELSE UNCHANGED game_states
    /\ UNCHANGED <<active_games, outside_web>>

\* /api/command: game_state.execute_command(command) acts on
\* game_state.player, and the response is returned.
CommandExecute ==
    /\ \E r \in Requests :
         /\ requests[r].pc = "switched"
         /\ LET actor == game_states[requests[r].game_state].player
            IN  /\ game_states' =
                     [game_states EXCEPT
                        ![requests[r].game_state].acted = actor]
                /\ requests' =
                     [requests EXCEPT
                        ![r] = [NoRequest EXCEPT
                                  !.pc = "done",
                                  !.active_character =
                                      requests[r].active_character,
                                  !.ran_as = actor,
                                  !.success = TRUE]]
    /\ UNCHANGED <<active_games, outside_web>>

----------------------------------------------------------------------------
(* Specifications *)

\* The web server has started: no game and no request.
NoWeb ==
    /\ active_games = [session_id \in SessionIds |-> 0]
    /\ game_states = <<>>
    /\ requests = [r \in Requests |-> NoRequest]

\* No scenario has been saved or loaded.
NoLibrary ==
    /\ scenarios_dir = <<>>
    /\ saved_from = <<>>
    /\ lib_last = NoLibCall

\* No rooms are being populated.
NoRooms ==
    /\ ppc = "idle"
    /\ room_encounters = <<>>
    /\ safe_rest = <<>>
    /\ empty_rooms = {}

GraphIdle ==
    /\ gpc = "idle"
    /\ graph = <<>>
    /\ room_counter = 0
    /\ branch_points = <<>>
    /\ loop_i = 0
    /\ attempts = 0
    /\ exits = <<>>
    /\ available_dirs = <<>>
    /\ processed_pairs = {}
    /\ room_idx = 0
    /\ calls = 0
    /\ first_exits = <<>>

GenIdle == NoRooms /\ GraphIdle /\ NoLibrary /\ NoWeb

NoConfig ==
    /\ config = <<>>
    /\ config_args = <<>>
    /\ config_error = ""

NoRound ==
    /\ results = [party_initiative |-> 0, monster_initiative |-> 0,
                  party_won |-> FALSE, monsters_won |-> FALSE]
    /\ acting = "party"
    /\ turn = 0
    /\ attacker_idx = 0
    /\ actions = <<>>

CombatIdle ==
    /\ cpc = "idle"
    /\ atk = <<>>
    /\ party = <<>>
    /\ monsters = <<>>
    /\ NoRound

\* No session yet: a new TimeTracker, no player, no GameState.
NoSession ==
    /\ time_tracker = NewTimeTracker
    /\ player = NewPlayer
    /\ game = NoGame
    /\ last = NoCall

ConfigInit == NoConfig /\ GenIdle /\ CombatIdle /\ NoSession

\* DungeonConfig objects are constructed, one call after another.
SpecConfig == ConfigInit /\ [][ConstructConfig]_vars

\* A generator and a config that was constructed without error; values of
\* dead_ends above num_rooms // 3 and of loops above num_rooms // 4 act as
\* these limits and are left out.
GenInitFor(seeds, sizes, layouts) ==
    /\ \E seed \in seeds, n \in sizes, layout \in layouts :
       \E dead \in (0 - 1)..Min(MaxDeadEnds, n \div 3),
          loops \in 0..Min(MaxLoops, n \div 4) :
         LET made == DungeonConfig(ConfigArgs(seed, n, layout, dead, loops,
                                              6, 2, 2, "low"))
         IN  /\ made.error = ""
             /\ config = made.obj
             /\ config_args = made.obj
             /\ config_error = ""
    /\ NoRooms
    /\ NoLibrary
    /\ NoWeb
    /\ gpc = "start"
    /\ graph = <<>>
    /\ room_counter = 0
    /\ branch_points = <<>>
    /\ loop_i = 0
    /\ attempts = 0
    /\ exits = <<>>
    /\ available_dirs = <<>>
    /\ processed_pairs = {}
    /\ room_idx = 0
    /\ calls = 1
    /\ first_exits = <<>>
    /\ CombatIdle
    /\ NoSession

BranchingNext ==
    \/ GenerateBranchingStart
    \/ AddBranch
    \/ BranchesDone
    \/ LoopAttempt
    \/ LoopGiveUp
    \/ LoopsDone
    \/ CreateRooms
    \/ AssignRoomExits
    \/ GenerateReturn

GenNext == GenerateLinear \/ BranchingNext

\* One generate call on a config that was constructed without error.
SpecGen ==
    GenInitFor({<<42>>}, MinRooms..MaxRooms, LayoutTypes) /\ [][GenNext]_vars

\* One generate call on a network config of NetRooms rooms.
SpecNet ==
    GenInitFor({<<42>>}, {NetRooms}, {"network"}) /\ [][BranchingNext]_vars

\* Two generate calls on the same config.
SpecDet ==
    GenInitFor(Seeds, MinRooms..DetRooms, LayoutTypes)
        /\ [][GenNext \/ GenerateAgain]_vars

\* attack_roll called directly, as GameState._handle_attack does.
SpecAttack == ConfigInit /\ [][AttackRollCall \/ AttackResultUsed]_vars

\* The sides a combat round is fought between: an unarmed player character,
\* one with a magic weapon, a dead one; monsters with a damage attribute.
PC(hp, weapon) == Character(18, 5, hp, "M", 0, 0, weapon, <<>>, FALSE)
Monster(hp, incap) ==
    Character(19, 7, hp, "S", 0, 0, <<>>, <<Dice(1, 2, 0)>>, incap)

Parties ==
    {<<PC(1, <<>>)>>, <<PC(3, <<>>)>>,
     <<PC(1, <<>>), PC(3, <<Weapon(Dice(1, 3, 1), Dice(2, 2, 0), 1)>>)>>,
     <<PC(0, <<>>), PC(1, <<>>)>>}

MonsterGroups ==
    {<<>>, <<Monster(1, FALSE)>>, <<Monster(1, FALSE), Monster(1, FALSE)>>,
     <<Monster(1, FALSE), Monster(3, FALSE)>>,
     <<Monster(1, TRUE), Monster(1, FALSE)>>}

RoundInit ==
    /\ NoConfig
    /\ GenIdle
    /\ cpc = "idle"
    /\ atk = <<>>
    /\ party \in Parties
    /\ monsters \in MonsterGroups
    /\ NoRound
    /\ NoSession

\* One resolve_combat_round call.
SpecRound == RoundInit /\ [][RoundStart \/ SideAction \/ SideDone]_vars

\* A session with an equipped light source.
LightInit ==
    /\ NoConfig
    /\ GenIdle
    /\ CombatIdle
    /\ time_tracker = NewTimeTracker
    /\ \E items \in LightItems, inventory \in Inventories :
          player = [NewPlayer EXCEPT !.items = items,
                                     !.inventory = inventory,
                                     !.light_source = 1]
    /\ game = NoGame
    /\ last = NoCall

\* Turns pass and light sources are lit.
SpecLight == LightInit /\ [][AdvanceTurnCall \/ HandleEquip]_vars

\* A player about to rest: hurt or not, with memorized spells used or not,
\* exhausted or not, carrying up to two rations, in a room that is safe for
\* rest or is not.
RestItems ==
    {<<LightSource("Torch", MaxBurn), o2, Item("Rations (1 day)")>> :
        o2 \in {LightSource("Torch", MaxBurn), Item("Rations (1 day)")}}

SpellSlots ==
    {<<>>, <<[level |-> 1, is_used |-> FALSE]>>,
     <<[level |-> 1, is_used |-> TRUE], [level |-> 2, is_used |-> FALSE]>>}

RestInit ==
    /\ NoConfig
    /\ GenIdle
    /\ CombatIdle
    /\ time_tracker = NewTimeTracker
    /\ \E items \in RestItems, inventory \in Inventories,
          hp \in {1, 4, 6}, spells \in SpellSlots,
          conditions \in {{}, {"exhausted"}, {"exhausted", "poisoned"}} :
          player = [NewPlayer EXCEPT !.items = items,
                                     !.inventory = inventory,
                                     !.light_source = 1,
                                     !.hp_current = hp, !.hp_max = 6,
                                     !.spells_memorized = spells,
                                     !.conditions = conditions]
    /\ \E safe \in {{}, {1}} :
          game = [NoGame EXCEPT !.safe = safe, !.current_room = 1]
    /\ last = NoCall

\* The rest command, again and again.
SpecRest == RestInit /\ [][HandleRest]_vars

\* A new level-1 character of each class, with the hit point bonus per
\* level its constitution gives.
XpInit ==
    /\ NoConfig
    /\ GenIdle
    /\ CombatIdle
    /\ time_tracker = NewTimeTracker
    /\ \E char_class \in XpClasses \cup {"Monk"}, con_bonus \in {0 - 2, 0, 1},
          hp \in {3, 5} :
          player = [NewPlayer EXCEPT !.char_class = char_class,
                                     !.hp_bonus_per_level = con_bonus,
                                     !.hp_current = hp, !.hp_max = 5]
    /\ game = NoGame
    /\ last = NoCall

\* Experience is gained, call after call.
SpecXp == XpInit /\ [][GainXpCall]_vars

\* The raw encounter records of a dungeon file.
Combat(trigger, monster_ids) ==
    [type |-> "combat", trigger |-> trigger, monsters |-> monster_ids]

Trap == [type |-> "trap", trigger |-> "on_search", monsters |-> <<>>]

\* The encounters of rooms 2 and 3 in the dungeons of the session.  "dragon"
\* is a monster id the catalog does not know.
Dungeons ==
    {<<<<Combat("on_enter", <<"kobold", "goblin">>),
         Combat("on_search", <<"goblin">>)>>,
       <<Trap, Combat("on_enter", <<"dragon", "kobold">>)>>>>,
     <<<<Combat("on_enter", <<"kobold">>), Combat("on_enter", <<"goblin">>)>>,
       <<Combat("on_enter", <<"kobold">>)>>>>,
     <<<<Combat("on_enter", <<"kobold">>)>>,
       <<Combat("on_enter", <<"dragon">>)>>>>,
     <<<<>>,
       <<Combat("on_enter", <<"goblin">>), Combat("on_search", <<"goblin">>)>>>>,
     <<<<Trap, Combat("on_search", <<"kobold">>)>>,
       <<>>>>,
     <<<<Combat("on_enter", <<"dragon">>)>>,
       <<>>>>}

\* The exits of the session's dungeon: three rooms in a row, and an exit of
\* room 3 to a room the dungeon does not have.
GameExits ==
    <<[north |-> 2, south |-> 0, east |-> 0, west |-> 0],
      [north |-> 0, south |-> 1, east |-> 3, west |-> 0],
      [north |-> 9, south |-> 0, east |-> 0, west |-> 2]>>

\* GameState.__init__ for a new Fighter in the start room of the dungeon,
\* carrying a lit torch, a spare one and a ration.
GameInit ==
    /\ NoConfig
    /\ GenIdle
    /\ CombatIdle
    /\ time_tracker = NewTimeTracker
    /\ \E hp \in {2, 6} :
         player = [NewPlayer EXCEPT
                     !.items = <<LightSource("Torch", MaxBurn),
                                 LightSource("Torch", MaxBurn),
                                 Item("Rations (1 day)")>>,
                     !.inventory = <<2, 3>>,
                     !.light_source = 1,
                     !.hp_current = hp, !.hp_max = 6]
    /\ \E e \in Dungeons :
         game = [NoGame EXCEPT
                   !.exits = GameExits,
                   !.safe = {1},
                   !.encounters = <<<<>>, e[1], e[2]>>,
                   !.encounters_completed = <<<<>>, <<>>, <<>>>>,
                   !.current_room = 1,
                   !.is_active = TRUE]
    /\ last = NoCall

\* The commands of a session, one after the other.
SpecGame == GameInit /\ [][HandleMove \/ HandleSearch \/ HandleAttack]_vars

\* Dice are rolled, one call after the other.
SpecDice == ConfigInit /\ [][RollCall \/ RollResultUsed]_vars

\* A character gains level after level.
SpecLevels == XpInit /\ [][GainLevelCall]_vars

\* generate has created the rooms of a config: no encounters yet, no room
\* safe for rest.
PopInit ==
    /\ \E n \in MinRooms..MaxPopRooms, cf \in {0, 4, 6, 10}, tf \in {0, 2, 4},
          safe_rooms \in 0..MaxSafeRooms, include_boss \in BOOLEAN :
         LET made == DungeonConfig(
                         ConfigArgs(<<42>>, n, "linear", 0, 0, cf, tf, 0, "low")
                         @@ [safe_rooms |-> safe_rooms,
                             include_boss |-> include_boss])
         IN  /\ made.error = ""
             /\ config = made.obj
             /\ config_args = made.obj
             /\ config_error = ""
             /\ room_encounters = [r \in 1..n |-> <<>>]
             /\ safe_rest = [r \in 1..n |-> FALSE]
    /\ ppc = "rooms"
    /\ empty_rooms = {}
    /\ GraphIdle
    /\ NoLibrary
    /\ NoWeb
    /\ CombatIdle
    /\ NoSession

\* generate from _populate_encounters to its return.
SpecPopulate ==
    PopInit
    /\ [][GeneratePopulate \/ GenerateSafeRooms \/ GenerateBossAndReturn]_vars

\* Scenarios are saved, loaded and recreated, one call after another.
SpecScenario ==
    ConfigInit
    /\ [][SaveScenarioCall \/ SaveScenarioFromDataCall \/ LoadScenarioCall
            \/ CreateDungeonCall]_vars

\* The web server: games are started and commands are requested, the
\* requests handled by threads that can be switched between any two steps.
SpecWeb ==
    ConfigInit
    /\ [][NewGame \/ CommandLookup \/ CommandSwitch \/ CommandExecute]_vars

----------------------------------------------------------------------------
(* Claims about the generated dungeon *)

Returned == gpc = "done"

\* The rooms reached from the rooms of S by following exits.
RECURSIVE Reach(_, _)
Reach(ex, S) ==
    LET next == S \cup ({ex[r][d] : r \in S, d \in Dirs} \ {0})
    IN  IF next = S THEN S ELSE Reach(ex, next)

\* C1: in every returned dungeon, room A has an exit D leading to room B if
\* and only if B has the exit opposite to D leading to A.
C1_ExitsSymmetric ==
    Returned =>
        \A a \in DOMAIN exits, b \in DOMAIN exits, d \in Dirs :
            exits[a][d] = b <=> exits[b][Opposite(d)] = a

\* C1 witness: a returned network dungeon in which a loop was placed and a
\* room has exits in three directions or more.
C1_Witness ==
    /\ Returned
    /\ cfg.layout_type = "network"
    /\ \E a \in DOMAIN graph : \E b \in graph[a] : Abs(a - b) > 2
    /\ \E a \in DOMAIN exits : Cardinality({d \in Dirs : exits[a][d] # 0}) >= 3

\* C2: in every returned dungeon every exit leads to a room of the dungeon
\* and every room is reached from room_001 by following exits.
C2_ExitsValidAndConnected ==
    Returned =>
        /\ \A a \in DOMAIN exits, d \in Dirs :
              exits[a][d] # 0 => exits[a][d] \in DOMAIN exits
        /\ Reach(exits, {1}) = DOMAIN exits

\* C4: the returned dungeon has exactly config.num_rooms rooms, numbered
\* room_001 .. room_<num_rooms>.
C4_ExactlyNumRooms ==
    Returned => DOMAIN exits = 1..cfg.num_rooms

\* C5: generate never raises on a config that was constructed without
\* error, and a loop is given up after 20 attempts.
C5_GenerateNeverRaises ==
    /\ gpc # "raised"
    /\ attempts <= MaxAttempts

\* C3: two generate calls with the same seeded config return the same rooms
\* and the same exits.
C3_SeededCallsIdentical ==
    (Returned /\ calls = 2 /\ cfg.seed # <<>>) => exits = first_exits

----------------------------------------------------------------------------
(* Claims about DungeonConfig *)

\* C6: constructing a DungeonConfig raises, and yields no object, whenever
\* num_rooms < 3, or the three frequencies sum to more than 1.0, or
\* layout_type or treasure_level is not an allowed value; otherwise the
\* construction succeeds and every field keeps the value given.
C6_ConfigValidation ==
    config_args # <<>> =>
        LET a == config_args[1]
            invalid ==
                \/ a.num_rooms < 3
                \/ a.combat_frequency + a.trap_frequency
                     + a.empty_room_frequency > 10
                \/ a.layout_type \notin {"linear", "branching", "network"}
                \/ a.treasure_level \notin {"low", "medium", "high"}
        IN  IF invalid
            THEN config = <<>> /\ config_error # ""
            ELSE config = <<a>> /\ config_error = ""

\* C6 witness: a call whose only fault is a frequency sum of 1.1 was
\* refused, leaving no object.
C6_Witness ==
    /\ config_args # <<>>
    /\ config_args[1].num_rooms >= 3
    /\ config_args[1].layout_type = "network"
    /\ config_args[1].treasure_level = "high"
    /\ config_args[1].combat_frequency + config_args[1].trap_frequency
         + config_args[1].empty_room_frequency = 11
    /\ config = <<>>
    /\ config_error = "Encounter frequencies sum to more than 1.0"

----------------------------------------------------------------------------
(* Claims about the combat resolver *)

\* C7: for a d20 roll between 2 and 19, attack_roll reports a hit exactly
\* when roll + to-hit bonus + weapon magic bonus >= attacker.thac0 -
\* defender.ac; and with the same roll the attack still hits when the
\* attacker's THAC0 is lower or the defender's AC is higher.
C7_HitIffRollReachesTarget ==
    atk # <<>> =>
        LET a == atk[1]
            r == a.result
        IN  r.roll \in 2..19 =>
              /\ r.hit <=>
                   r.roll + a.attacker.to_hit_bonus
                     + (IF a.weapon # <<>> THEN a.weapon[1].magic_bonus ELSE 0)
                   >= a.attacker.thac0 - a.defender.ac
              /\ r.hit =>
                   \A t \in {1, 18, 20}, c \in {0 - 10, 5, 10} :
                      (t <= a.attacker.thac0 /\ c >= a.defender.ac) =>
                         AttackRoll([a.attacker EXCEPT !.thac0 = t],
                                    [a.defender EXCEPT !.ac = c],
                                    a.weapon, r.roll, a.base_damage).hit

\* C7 witness: THAC0 18 against AC 5 with no bonus, a roll of 13 hit.
C7_Witness ==
    /\ atk # <<>>
    /\ atk[1].attacker.thac0 = 18
    /\ atk[1].attacker.to_hit_bonus = 0
    /\ atk[1].weapon = <<>>
    /\ atk[1].defender.ac = 5
    /\ atk[1].result.roll = 13
    /\ atk[1].result.hit

\* C8: a natural 20 is a hit with the critical-hit marker and its damage is
\* taken from the defender's hit points; a natural 1 is a miss with damage
\* 0, defender_died false and the defender's hit points unchanged.
C8_NaturalTwentyAndOne ==
    atk # <<>> =>
        LET a == atk[1]
            r == a.result
        IN  /\ r.roll = 20 =>
                 /\ r.hit
                 /\ r.critical = "hit"
                 /\ r.damage >= 1
                 /\ r.defender = TakeDamage(a.defender, r.damage)
                 /\ r.defender.hp_current < a.defender.hp_current
                 /\ r.defender_died = ~r.defender.is_alive
            /\ r.roll = 1 =>
                 /\ ~r.hit
                 /\ r.damage = 0
                 /\ ~r.defender_died
                 /\ r.defender.hp_current = a.defender.hp_current

\* C8 witness: THAC0 20 against AC -10, where no adjusted roll reaches the
\* target number 30, and a natural 20 hit and hurt the defender.
C8_Witness ==
    /\ atk # <<>>
    /\ atk[1].attacker.thac0 = 20
    /\ atk[1].defender.ac = 0 - 10
    /\ atk[1].result.roll = 20
    /\ atk[1].result.hit
    /\ atk[1].result.defender.hp_current < atk[1].defender.hp_current

\* C9: the damage reported is 0 on a miss, which leaves the defender as it
\* was; on a normal hit it is max(1, dice + damage bonus + magic bonus), and
\* on a natural 20 max(1, 2 * (dice + damage bonus + magic bonus)).
C9_DamageReported ==
    atk # <<>> =>
        LET a == atk[1]
            r == a.result
            total == a.base_damage + a.attacker.damage_bonus
                     + (IF a.weapon # <<>> THEN a.weapon[1].magic_bonus ELSE 0)
        IN  /\ ~r.hit => (r.damage = 0 /\ r.defender = a.defender)
            /\ (r.hit /\ r.roll # 20) =>
                 r.damage = (IF total >= 1 THEN total ELSE 1)
            /\ (r.hit /\ r.roll = 20) =>
                 r.damage = (IF 2 * total >= 1 THEN 2 * total ELSE 1)
            /\ r.hit => r.damage >= 1

\* C9 witness: a natural 20 by an attacker with a bonus, the doubled total
\* differing from doubled dice plus bonus.
C9_Witness ==
    /\ atk # <<>>
    /\ atk[1].result.roll = 20
    /\ atk[1].attacker.damage_bonus = 1
    /\ atk[1].weapon # <<>>
    /\ atk[1].weapon[1].magic_bonus = 1
    /\ atk[1].base_damage = 2
    /\ atk[1].result.damage = 8

\* C10: the party acts first exactly when its initiative roll is lower than
\* or equal to the monsters'; when every member of the second side is dead
\* after the first side has acted the round returns at once, no member of
\* the second side having attacked; otherwise the second side acts.
C10_InitiativeOrderAndEarlyReturn ==
    LET party_first ==
            results.party_initiative <= results.monster_initiative
        second == IF party_first THEN "monsters" ELSE "party"
    IN  /\ (cpc # "idle" /\ turn = 1) => (acting = "party" <=> party_first)
        /\ (cpc # "idle" /\ turn = 2) => acting = second
        /\ \A i \in DOMAIN actions :
              actions[i].side = second => turn = 2
        /\ cpc = "returned" =>
              IF AllDead(Members(second))
              THEN /\ turn = 1
                   /\ \A i \in DOMAIN actions : actions[i].side # second
              ELSE /\ turn = 2
                   /\ acting = second

\* C10 witness: initiative tied, the party acted first and killed every
\* monster, and the round returned without the monsters acting.
C10_Witness ==
    /\ cpc = "returned"
    /\ results.party_initiative = results.monster_initiative
    /\ Len(monsters) = 2
    /\ AllDead(monsters)
    /\ turn = 1
    /\ results.party_won
    /\ Len(actions) = 2

\* C11: a single party member whose attacks all hit, acting first against
\* two monsters of 1 hit point each: the round returns party_won = TRUE and
\* no monster has acted.
C11_SingleAttackerWinsRound ==
    ( /\ cpc = "returned"
      /\ results.party_initiative <= results.monster_initiative
      /\ Len(party) = 1
      /\ Len(monsters) = 2
      /\ \A i \in DOMAIN monsters :
            monsters[i].hp_max = 1 /\ ~monsters[i].incapacitated
      /\ \A i \in DOMAIN actions :
            actions[i].side = "party" => actions[i].hit )
    => ( /\ results.party_won
         /\ \A i \in DOMAIN actions : actions[i].side # "monsters" )

----------------------------------------------------------------------------
(* Claims about the TimeTracker *)

\* C12: after n advance_turn calls on a new TimeTracker turns_elapsed = n
\* and total_hours = floor(n / 6); each call raises turns_elapsed by exactly
\* 1 and lowers neither counter.
C12_TurnsAndHours ==
    /\ time_tracker.turns_elapsed = last.advance_calls
    /\ time_tracker.total_hours = last.advance_calls \div 6
    /\ last.op = "advance_turn" =>
          /\ time_tracker.turns_elapsed
                = last.tracker_before.turns_elapsed + 1
          /\ time_tracker.total_hours >= last.tracker_before.total_hours

\* C12 witness: the twelfth call has completed the second hour.
C12_Witness ==
    /\ last.op = "advance_turn"
    /\ last.advance_calls = 12
    /\ time_tracker.total_hours = 2
    /\ last.tracker_before.total_hours = 1

\* The light sources of p's inventory other than the equipped object.
SpareLights(p) ==
    {p.inventory[i] : i \in DOMAIN p.inventory} \cap
        {o \in DOMAIN p.items :
            p.items[o].class = "LightSource" /\ o # p.light_source}

\* C13: an advance_turn call made with an equipped light source of b >= 1
\* turns and no other light source in the inventory leaves has_light() true
\* when b > 1, returning the warnings when 3 and 1 turns are left, and when
\* b = 1 unequips it and returns the darkness message; and a call made with
\* no light equipped and none in the inventory leaves has_light() false.
C13_LightBurnsDown ==
    last.op = "advance_turn" =>
        LET before == last.player_before
            e == before.light_source
            b == before.items[e].turns_remaining
            Said(m) == \E i \in DOMAIN last.messages : last.messages[i] = m
        IN  SpareLights(before) = {} =>
              /\ (e # 0 /\ b > 1) =>
                    /\ HasLight(player)
                    /\ player.light_source = e
                    /\ player.items[e].turns_remaining = b - 1
                    /\ (b - 1 = 3 => Said("burning low"))
                    /\ (b - 1 = 1 => Said("almost exhausted"))
                    /\ ~Said("darkness")
              /\ (e # 0 /\ b = 1) =>
                    /\ player.light_source = 0
                    /\ ~HasLight(player)
                    /\ Said("darkness")
              /\ e = 0 => (player.light_source = 0 /\ ~HasLight(player))

\* C13 witness: the only light source, equipped from the inventory, has
\* burnt its last turn: darkness.
C13_Witness ==
    /\ last.op = "advance_turn"
    /\ last.player_before.light_source = 1
    /\ last.player_before.items[1].turns_remaining = 1
    /\ \E i \in DOMAIN last.player_before.inventory :
          last.player_before.inventory[i] = 1
    /\ SpareLights(last.player_before) = {}
    /\ player.light_source = 0
    /\ last.messages = <<"darkness">>

\* C14: when the equipped light source reaches 0 turns in advance_turn and
\* the inventory holds another light source with turns remaining, after the
\* call the burnt-out one is neither equipped nor in the inventory, a spare
\* one is equipped, has_light() is true and every other light source of the
\* inventory is still there.
C14_SpareLightReplacesBurntOut ==
    last.op = "advance_turn" =>
        LET before == last.player_before
            e == before.light_source
            spares == {o \in SpareLights(before) :
                          before.items[o].turns_remaining > 0}
        IN  (e # 0 /\ before.items[e].turns_remaining = 1 /\ spares # {}) =>
              /\ player.light_source # e
              /\ \A i \in DOMAIN player.inventory : player.inventory[i] # e
              /\ player.light_source \in spares
              /\ HasLight(player)
              /\ \A o \in SpareLights(before) :
                    \E i \in DOMAIN player.inventory : player.inventory[i] = o

----------------------------------------------------------------------------
(* Claims about the RestSystem *)

\* Whether p's inventory holds a ration.
HasRation(p) ==
    \E i \in DOMAIN p.inventory :
        p.items[p.inventory[i]].name = "Rations (1 day)"

\* C15: a rest in a room that is not safe, or without a ration, returns
\* success false, hp_recovered 0 and interrupted false, changes nothing of
\* the player (inventory, hit points, spell slots, conditions) and the rest
\* command advances no turn.
C15_FailedRestChangesNothing ==
    last.op = "rest" =>
        LET r == last.result[1]
            is_safe == last.game_before.current_room \in last.game_before.safe
        IN  (~is_safe \/ ~HasRation(last.player_before)) =>
              /\ ~r.success
              /\ r.hp_recovered = 0
              /\ ~r.interrupted
              /\ r.player = last.player_before
              /\ player = last.player_before
              /\ time_tracker = last.tracker_before

\* C15 witness: a rest refused in an unsafe room while rations are carried.
C15_Witness ==
    /\ last.op = "rest"
    /\ last.game_before.current_room \notin last.game_before.safe
    /\ HasRation(last.player_before)
    /\ ~last.result[1].success
    /\ player.inventory = last.player_before.inventory

\* C16: a rest in a safe room with a ration removes exactly one ration,
\* interrupted or not; interrupted, it leaves hit points and spell slots as
\* they were; successful, hp_recovered is the rise of the hit points, lies
\* in 0..4, hit points do not exceed hp_max and every slot is unused.
C16_RestConsumesOneRation ==
    last.op = "rest" =>
        LET r == last.result[1]
            before == last.player_before
            after == r.player
            is_safe == last.game_before.current_room \in last.game_before.safe
        IN  (is_safe /\ HasRation(before)) =>
              /\ r.success \/ r.interrupted
              /\ \E i \in DOMAIN before.inventory :
                    /\ before.items[before.inventory[i]].name
                          = "Rations (1 day)"
                    /\ after.inventory = WithoutIndex(before.inventory, i)
              /\ r.interrupted =>
                    /\ ~r.success
                    /\ after.hp_current = before.hp_current
                    /\ after.spells_memorized = before.spells_memorized
              /\ r.success =>
                    /\ r.hp_recovered = after.hp_current - before.hp_current
                    /\ r.hp_recovered \in 0..4
                    /\ after.hp_current <= after.hp_max
                    /\ \A i \in DOMAIN after.spells_memorized :
                          ~after.spells_memorized[i].is_used

\* C16 witness: a successful rest that healed less than the die showed
\* because of hp_max, and made a used slot ready again.
C16_Witness ==
    /\ last.op = "rest"
    /\ last.result[1].success
    /\ last.player_before.hp_current = 4
    /\ last.result[1].hp_recovered = 2
    /\ last.result[1].player.hp_current = 6
    /\ \E i \in DOMAIN last.player_before.spells_memorized :
          last.player_before.spells_memorized[i].is_used
    /\ Len(last.result[1].player.inventory)
          = Len(last.player_before.inventory) - 1

----------------------------------------------------------------------------
(* Claims about experience *)

\* C17: gain_xp adds the amount to the XP and levels the character up in
\* that call exactly when the new total reaches the threshold of the next
\* level; the level then is the one the XP table gives for the new total,
\* hp_max and hp_current have risen by the same amount of at least 1, and a
\* Fighter's THAC0 has dropped by exactly 1; a call that does not reach the
\* threshold changes only the XP.
C17_GainXpLevelsUp ==
    (/\ last.op = "gain_xp"
     /\ last.player_before.char_class \in XpClasses
     /\ last.player_before.level
           = LevelFor(last.player_before.char_class, last.player_before.xp))
    =>  LET before == last.player_before
            amount == last.result[1].amount
            reached == before.xp + amount
                          >= XpTable(before.char_class)[before.level + 1]
        IN  /\ player.xp = before.xp + amount
            /\ player.level # before.level <=> reached
            /\ reached =>
                  /\ player.level = LevelFor(player.char_class, player.xp)
                  /\ player.hp_max - before.hp_max
                        = player.hp_current - before.hp_current
                  /\ player.hp_max - before.hp_max >= 1
                  /\ before.char_class = "Fighter"
                        => player.thac0 = before.thac0 - 1
            /\ ~reached => player = [before EXCEPT !.xp = player.xp]

----------------------------------------------------------------------------
(* Claims about moving and encounters *)

\* C18: Dungeon.move returns None (0) when the room id is unknown or the
\* room has no exit in the direction; a move command that fails (no exit,
\* no direction given, or the player in combat) leaves the current room and
\* the turn counter as they were; a successful one sets the current room to
\* the exit's target and advances the turn counter by exactly 1.
C18_MoveContract ==
    /\ \A room_id \in 0..4, direction \in Dirs \cup {"", "up"} :
          (\/ room_id \notin DOMAIN game.exits
           \/ direction \notin Dirs
           \/ game.exits[room_id][direction] = 0)
          => Move(game, room_id, direction) = 0
    /\ last.op = "move" =>
          LET before == last.game_before
              direction == last.result[1].target
              success == last.result[1].success
              no_exit == \/ direction \notin Dirs
                         \/ before.exits[before.current_room][direction] = 0
              turns_before == last.tracker_before.turns_elapsed
          IN  /\ (before.in_combat \/ direction = "" \/ no_exit) => ~success
              /\ ~success =>
                    /\ game.current_room = before.current_room
                    /\ time_tracker.turns_elapsed = turns_before
              /\ success =>
                    /\ game.current_room
                           = before.exits[before.current_room][direction]
                    /\ time_tracker.turns_elapsed = turns_before + 1

\* A move is refused because the move before it started combat.
C18_Witness ==
    /\ last.op = "move"
    /\ ~last.result[1].success
    /\ last.game_before.in_combat
    /\ last.game_before.current_room # 1
    /\ time_tracker.turns_elapsed >= 1

\* The number of times the encounter with this id has started combat.
TimesStarted(id) ==
    Cardinality({k \in DOMAIN game.started : game.started[k] = id})

\* C19: over any sequence of commands, each combat encounter of a room
\* starts combat at most once; once it has been triggered its id is among
\* the room's completed encounters, and entering or searching the room
\* again does not start it again.
C19_EncounterStartsOnce ==
    \A room \in DOMAIN game.encounters :
       \A i \in DOMAIN game.encounters[room] :
          /\ TimesStarted(EncounterId(room, i)) <= 1
          /\ TimesStarted(EncounterId(room, i)) = 1 =>
                \E c \in DOMAIN game.encounters_completed[room] :
                   game.encounters_completed[room][c] = EncounterId(room, i)

\* The player is back in a room whose on_enter encounter was fought and
\* won earlier, and no combat has started.
C19_Witness ==
    /\ last.op = "move"
    /\ last.result[1].success
    /\ game.encounters_completed[game.current_room] # <<>>
    /\ last.game_before.encounters_completed[game.current_room] # <<>>
    /\ \E i \in DOMAIN game.encounters[game.current_room] :
          /\ game.encounters[game.current_room][i].trigger = "on_enter"
          /\ TimesStarted(EncounterId(game.current_room, i)) = 1
    /\ ~game.in_combat
    /\ game.started = last.game_before.started

----------------------------------------------------------------------------
(* Claims about the dice *)

\* C20: for every notation XdY+Z, XdY-Z, XdY or dY with X >= 1 (1 when left
\* out) and Y >= 1, DiceRoller.roll returns an integer between X + Z and
\* X*Y + Z, the sum of X draws from 1..Y plus the modifier; roll('1d6')
\* returns neither 0 nor 7.
C20_RollInRange ==
    cpc = "rolled" =>
       /\ \A x \in DiceCounts, y \in DieSizes, z \in Modifiers :
             atk[1].dice_string = Notation(x, y, z) =>
                LET X == IF Len(x) = 0 THEN 1 ELSE x[1]
                    Z == IF Len(z) = 0 THEN 0
                         ELSE IF z[1] = "-" THEN 0 - z[2] ELSE z[2]
                    value == atk[1].result.value
                IN  /\ atk[1].result.raised = ""
                    /\ value \in (X + Z)..(X * y + Z)
                    /\ Len(atk[1].draws) = X
                    /\ \A k \in DOMAIN atk[1].draws : atk[1].draws[k] \in 1..y
                    /\ value = SumSeq(atk[1].draws) + Z
       /\ atk[1].dice_string = <<"1", "d", "6">> =>
             atk[1].result.value \in 1..6

\* Three ten-sided dice less 2 came out as 3 + 10 + 1 - 2.
C20_Witness ==
    /\ cpc = "rolled"
    /\ atk[1].dice_string = <<"3", "d", "1", "0", "-", "2">>
    /\ atk[1].draws = <<3, 10, 1>>
    /\ atk[1].result.value = 12

\* C23: in every GameState reachable by any sequence of commands, also with
\* encounters whose monster ids the catalog does not know, in_combat implies
\* that active_monsters holds at least one living monster.
C23_CombatHasLivingMonster ==
    game.in_combat =>
       \E k \in DOMAIN game.active_monsters : game.active_monsters[k].is_alive

\* Whether the encounter with this id is among the completed ones of a room.
Completed(g, room, id) ==
    \E c \in DOMAIN g.encounters_completed[room] :
       g.encounters_completed[room][c] = id

\* C28: a search in a room whose encounters include a trap (trigger
\* on_search) that is not yet completed makes the trap fire and adds it to
\* the room's completed encounters.
C28_SearchFiresTrap ==
    last.op = "search" =>
       LET before == last.game_before
           room == before.current_room
       IN  \A i \in DOMAIN before.encounters[room] :
              (/\ before.encounters[room][i].type = "trap"
               /\ before.encounters[room][i].trigger = "on_search"
               /\ ~Completed(before, room, EncounterId(room, i)))
              => Completed(game, room, EncounterId(room, i))

----------------------------------------------------------------------------
(* Further claims about resolve_combat_round *)

\* C26: in one resolve_combat_round every combatant makes at most one
\* attack, an incapacitated combatant makes none, and every attack is aimed
\* at a member of the opposing side that is alive at the moment of the
\* attack, so a side without a living member receives no further attack.
C26_OneAttackEachAtLivingTarget ==
    [][Len(actions') > Len(actions) =>
          LET a == actions'[Len(actions')]
              attackers == Members(a.side)
              defenders == Members(OtherSide(a.side))
          IN  /\ Len(actions') = Len(actions) + 1
              /\ ~IsIncapacitated(attackers[a.attacker])
              /\ defenders[a.target].is_alive
              /\ ~AllDead(defenders)
              /\ \A k \in DOMAIN actions :
                    ~(/\ actions[k].side = a.side
                      /\ actions[k].attacker = a.attacker)]_vars

\* A round of two against two has returned in which the party struck first
\* and killed a monster, the incapacitated monster made no attack and the
\* other monster made one.
C26_Witness ==
    /\ cpc = "returned"
    /\ Len(party) = 2
    /\ Len(monsters) = 2
    /\ monsters[1].incapacitated
    /\ ~monsters[1].is_alive
    /\ \E k \in DOMAIN actions :
          actions[k].side = "monsters" /\ actions[k].attacker = 2
    /\ \A k \in DOMAIN actions :
          ~(actions[k].side = "monsters" /\ actions[k].attacker = 1)
    /\ \E k \in DOMAIN actions :
          actions[k].side = "party" /\ actions[k].target = 1

\* C27: resolve_combat_round never returns with both party_won and
\* monsters_won true; party_won implies that every monster is dead on
\* return, monsters_won that every party member is.
C27_WinnerWipedOutTheOtherSide ==
    cpc = "returned" =>
       /\ ~(results.party_won /\ results.monsters_won)
       /\ results.party_won =>
             \A i \in DOMAIN monsters : ~monsters[i].is_alive
       /\ results.monsters_won =>
             \A i \in DOMAIN party : ~party[i].is_alive

\* The monsters, acting second, killed the last of a party of two.
C27_Witness ==
    /\ cpc = "returned"
    /\ results.monsters_won
    /\ turn = 2
    /\ Len(party) = 2
    /\ \E k \in DOMAIN actions : actions[k].side = "party"
    /\ \E i \in DOMAIN monsters : monsters[i].is_alive

----------------------------------------------------------------------------
(* Claims about THAC0 *)

\* C30: over consecutive level-ups of one character THAC0 drops by 1 at
\* every level-up for a Fighter, at every 2nd for a Thief, at every 3rd for
\* a Magic-User and twice in every 3 for a Cleric, and it never rises: after
\* n level-ups of a character that began with THAC0 20 it is 20 less n,
\* n / 2, n / 3 and 2n / 3, rounded down.
C30_Thac0OverLevelUps ==
    LET n == player.level - 1
        drops == 20 - player.thac0
    IN  /\ player.char_class = "Fighter" => drops = n
        /\ player.char_class = "Thief" => drops = n \div 2
        /\ player.char_class = "Magic-User" => drops = n \div 3
        /\ player.char_class = "Cleric" => drops = (2 * n) \div 3
        /\ last.op = "gain_xp" => player.thac0 <= last.player_before.thac0

----------------------------------------------------------------------------
(* Claims about the branching layout *)

\* C29: in the branching layout with N rooms, rooms 1 to ceil(0.6 N) form
\* the main chain, each linked to its numeric neighbours; at most
\* min(dead_ends, N / 3) side branches of 1 to 3 rooms each are attached at
\* distinct interior rooms of the chain; and the branch rooms use up all of
\* the remaining N - ceil(0.6 N) rooms.
C29_BranchingShape ==
    (Returned /\ cfg.layout_type = "branching") =>
       LET N == cfg.num_rooms
           chain == (6 * N + 9) \div 10
           rooms == DOMAIN graph
           starts == {b \in rooms : b > chain /\ \E a \in graph[b] : a <= chain}
           points == {a \in rooms : a <= chain /\ \E b \in graph[a] : b > chain}
           BranchOf(s) ==
               {b \in rooms : b >= s /\ \A t \in starts : t <= s \/ t > b}
       IN  /\ \A i \in 1..chain :
                 /\ i \in rooms
                 /\ i > 1 => (i - 1) \in graph[i]
                 /\ i < chain => (i + 1) \in graph[i]
           /\ Cardinality(starts) <= Min(cfg.dead_ends, N \div 3)
           /\ Cardinality(points) = Cardinality(starts)
           /\ points \subseteq 2..(chain - 1)
           /\ \A s \in starts : Cardinality(BranchOf(s)) \in 1..3
           /\ rooms = 1..N

----------------------------------------------------------------------------
(* Claims about encounters and safe rooms of the generated dungeon *)

\* C24: in every generated dungeon the start room holds no encounter, every
\* room holds at most one encounter and none holds both a combat and a trap
\* encounter; when include_boss is set, the last room by id holds exactly
\* one encounter, a single-monster combat flagged as boss, and no other room
\* holds a boss encounter.
C24_EncounterPlacement ==
    ppc = "returned" =>
       LET rooms == room_encounters
           final_room == Len(rooms)
           Holds(r, type) == \E k \in DOMAIN rooms[r] : rooms[r][k].type = type
       IN  /\ rooms[1] = <<>>
           /\ \A r \in DOMAIN rooms :
                 /\ Len(rooms[r]) <= 1
                 /\ ~(Holds(r, "combat") /\ Holds(r, "trap"))
           /\ cfg.include_boss =>
                 /\ Len(rooms[final_room]) = 1
                 /\ rooms[final_room][1].type = "combat"
                 /\ Len(rooms[final_room][1].monsters) = 1
                 /\ rooms[final_room][1].boss
                 /\ \A r \in DOMAIN rooms \ {final_room} :
                       \A k \in DOMAIN rooms[r] : ~rooms[r][k].boss

\* A dungeon of four rooms was returned with the boss in the last room, a
\* combat encounter of two monsters in another and a trap in a third.
C24_Witness ==
    /\ ppc = "returned"
    /\ cfg.include_boss
    /\ Len(room_encounters) = 4
    /\ room_encounters[4] # <<>>
    /\ room_encounters[4][1].boss
    /\ \E r \in 2..3 :
          /\ room_encounters[r] # <<>>
          /\ room_encounters[r][1].type = "combat"
          /\ Len(room_encounters[r][1].monsters) = 2
    /\ \E r \in 2..3 :
          /\ room_encounters[r] # <<>>
          /\ room_encounters[r][1].type = "trap"

\* C25: in the returned dungeon exactly min(config.safe_rooms, number of
\* rooms) rooms are flagged safe for rest, and whenever at least
\* config.safe_rooms rooms without encounters existed when the safe rooms
\* were chosen, no room flagged safe for rest holds an encounter.
C25_SafeRooms ==
    ppc = "returned" =>
       LET safe == {r \in DOMAIN safe_rest : safe_rest[r]}
       IN  /\ Cardinality(safe) = Min(cfg.safe_rooms, Len(room_encounters))
           /\ Cardinality(empty_rooms) >= cfg.safe_rooms =>
                 \A r \in safe : room_encounters[r] = <<>>

----------------------------------------------------------------------------
(* Claims about the scenario library *)

\* C22: a dungeon saved with save_scenario and recreated from the stored
\* scenario with create_dungeon_from_scenario has the name, the start room
\* and the room ids of the dungeon that was saved.
C22_ScenarioRoundTrip ==
    (/\ lib_last.op = "create_dungeon_from_scenario"
     /\ lib_last.origin.by = "save_scenario")
    => /\ lib_last.result.raised = ""
       /\ LET recreated == lib_last.result.dungeon[1]
              dungeon == lib_last.origin.dungeon[1]
          IN  /\ recreated.name = dungeon.name
              /\ recreated.start_room_id = dungeon.start_room_id
              /\ DOMAIN recreated.rooms = DOMAIN dungeon.rooms

----------------------------------------------------------------------------
(* Claims about the web layer *)

\* C21: every /api/command request that was answered executed its command
\* with the active character named in that request, whatever other requests
\* for the session were in flight, and no request holds the GameState that
\* is stored under another session id than its own.
C21_RequestsSerializedPerSession ==
    /\ \A r \in Requests :
         (/\ requests[r].pc = "done"
          /\ requests[r].success
          /\ requests[r].active_character \in 0..(PartySize - 1))
         => requests[r].ran_as = requests[r].active_character
    /\ \A r \in Requests, session_id \in SessionIds :
         (/\ requests[r].game_state # 0
          /\ session_id # requests[r].session_id)
         => active_games[session_id] # requests[r].game_state

====
